---------------------------- MODULE Spec2Model ----------------------------
(***************************************************************************)
(* A model of the IPFIX collector core of nfdump (bin/ipfix.c): the        *)
(* template parse cache, the sequencer compiler (setup_translation_table,  *)
(* reorder_sequencer), the per-exporter template list and its cache, the   *)
(* template-set dispatcher and the part of the data path that decides the  *)
(* sampling rate and whether a record is emitted.                          *)
(***************************************************************************)
EXTENDS Integers, Sequences, FiniteSets, TLC

\* F(v), with v evaluated once however often F uses it (a C local variable)
Bind(v, F(_)) == CHOOSE y \in { F(x) : x \in {v} } : TRUE

\* ---- IPFIX information element ids used by ipfix_element_map (IANA numbers) ----
IPFIX_octetDeltaCount == 1
IPFIX_packetDeltaCount == 2
IPFIX_protocolIdentifier == 4
IPFIX_ipClassOfService == 5
IPFIX_tcpControlBits == 6
IPFIX_SourceTransportPort == 7
IPFIX_SourceIPv4Address == 8
IPFIX_SourceIPv4PrefixLength == 9
IPFIX_ingressInterface == 10
IPFIX_DestinationTransportPort == 11
IPFIX_DestinationIPv4Address == 12
IPFIX_DestinationIPv4PrefixLength == 13
IPFIX_egressInterface == 14
IPFIX_ipNextHopIPv4Address == 15
IPFIX_bgpSourceAsNumber == 16
IPFIX_bgpDestinationAsNumber == 17
IPFIX_bgpNextHopIPv4Address == 18
IPFIX_flowEndSysUpTime == 21
IPFIX_flowStartSysUpTime == 22
IPFIX_postOctetDeltaCount == 23
IPFIX_postPacketDeltaCount == 24
IPFIX_SourceIPv6Address == 27
IPFIX_DestinationIPv6Address == 28
IPFIX_SourceIPv6PrefixLength == 29
IPFIX_DestinationIPv6PrefixLength == 30
IPFIX_icmpTypeCodeIPv4 == 32
IPFIX_postIpClassOfService == 55
IPFIX_SourceMacAddress == 56
IPFIX_postDestinationMacAddress == 57
IPFIX_vlanId == 58
IPFIX_postVlanId == 59
IPFIX_flowDirection == 61
IPFIX_ipNextHopIPv6Address == 62
IPFIX_bgpNextHopIPv6Address == 63
IPFIX_mplsTopLabelStackSection == 70
IPFIX_mplsLabelStackSection2 == 71
IPFIX_mplsLabelStackSection3 == 72
IPFIX_mplsLabelStackSection4 == 73
IPFIX_mplsLabelStackSection5 == 74
IPFIX_mplsLabelStackSection6 == 75
IPFIX_mplsLabelStackSection7 == 76
IPFIX_mplsLabelStackSection8 == 77
IPFIX_mplsLabelStackSection9 == 78
IPFIX_mplsLabelStackSection10 == 79
IPFIX_DestinationMacAddress == 80
IPFIX_postSourceMacAddress == 81
IPFIX_octetTotalCount == 85
IPFIX_packetTotalCount == 86
IPFIX_forwardingStatus == 89
IPFIX_flowEndReason == 136
IPFIX_icmpTypeCodeIPv6 == 139
IPFIX_flowStartSeconds == 150
IPFIX_flowEndSeconds == 151
IPFIX_flowStartMilliseconds == 152
IPFIX_flowEndMilliseconds == 153
IPFIX_flowStartDeltaMicroseconds == 158
IPFIX_flowEndDeltaMicroseconds == 159
IPFIX_SystemInitTimeMiliseconds == 160
IPFIX_flowDurationMilliseconds == 161
IPFIX_postOctetTotalCount == 171
IPFIX_postPacketTotalCount == 172
IPFIX_postNATSourceIPv4Address == 225
IPFIX_postNATDestinationIPv4Address == 226
IPFIX_postNAPTSourceTransportPort == 227
IPFIX_postNAPTDestinationTransportPort == 228
IPFIX_natEvent == 230
IPFIX_INGRESS_VRFID == 234
IPFIX_EGRESS_VRFID == 235
IPFIX_biflowDirection == 239

\* ---- extension ids: the index of a group in extension_descriptor[] ----
COMMON_BLOCK == 0
EX_IO_SNMP_2 == 4
EX_IO_SNMP_4 == 5
EX_AS_2 == 6
EX_AS_4 == 7
EX_MULIPLE == 8
EX_NEXT_HOP_v4 == 9
EX_NEXT_HOP_v6 == 10
EX_NEXT_HOP_BGP_v4 == 11
EX_NEXT_HOP_BGP_v6 == 12
EX_VLAN == 13
EX_OUT_PKG_4 == 14
EX_OUT_PKG_8 == 15
EX_OUT_BYTES_4 == 16
EX_OUT_BYTES_8 == 17
EX_AGGR_FLOWS_8 == 19
EX_MAC_1 == 20
EX_MAC_2 == 21
EX_MPLS == 22
EX_ROUTER_IP_v4 == 23
EX_ROUTER_IP_v6 == 24
EX_ROUTER_ID == 25
EX_RECEIVED == 27
EX_NSEL_XLATE_PORTS == 38
EX_NSEL_XLATE_IP_v4 == 39
EX_NEL_COMMON == 46

\* ipfix_element_map[1..]: <<id, input length, output length, sequence, zero_sequence, extension>>.
\* Row 0 of the C array ({0,0,0}) is the 'no index' marker; the closing {0,0,0} row is ElementMapEnd.
ipfix_element_map ==
  << <<IPFIX_octetDeltaCount, 4, 8, "move32_sampling", "zero64", COMMON_BLOCK>>,
     <<IPFIX_octetDeltaCount, 8, 8, "move64_sampling", "zero64", COMMON_BLOCK>>,
     <<IPFIX_packetDeltaCount, 4, 8, "move32_sampling", "zero64", COMMON_BLOCK>>,
     <<IPFIX_packetDeltaCount, 8, 8, "move64_sampling", "zero64", COMMON_BLOCK>>,
     <<IPFIX_octetTotalCount, 4, 8, "move32_sampling", "zero64", COMMON_BLOCK>>,
     <<IPFIX_octetTotalCount, 8, 8, "move64_sampling", "zero64", COMMON_BLOCK>>,
     <<IPFIX_octetTotalCount, 6, 8, "move48_sampling", "zero64", COMMON_BLOCK>>,
     <<IPFIX_packetTotalCount, 4, 8, "move32_sampling", "zero64", COMMON_BLOCK>>,
     <<IPFIX_packetTotalCount, 8, 8, "move64_sampling", "zero64", COMMON_BLOCK>>,
     <<IPFIX_packetTotalCount, 6, 8, "move48_sampling", "zero64", COMMON_BLOCK>>,
     <<IPFIX_forwardingStatus, 1, 1, "move8", "zero8", COMMON_BLOCK>>,
     <<IPFIX_protocolIdentifier, 1, 1, "move8", "zero8", COMMON_BLOCK>>,
     <<IPFIX_ipClassOfService, 1, 1, "move8", "zero8", COMMON_BLOCK>>,
     <<IPFIX_tcpControlBits, 1, 1, "move8", "zero8", COMMON_BLOCK>>,
     <<IPFIX_tcpControlBits, 2, 1, "move_flags", "zero8", COMMON_BLOCK>>,
     <<IPFIX_SourceTransportPort, 2, 2, "move16", "zero16", COMMON_BLOCK>>,
     <<IPFIX_SourceIPv4Address, 4, 4, "move32", "zero32", COMMON_BLOCK>>,
     <<IPFIX_SourceIPv4PrefixLength, 1, 1, "move8", "zero8", EX_MULIPLE>>,
     <<IPFIX_ingressInterface, 4, 4, "move32", "zero32", EX_IO_SNMP_4>>,
     <<IPFIX_ingressInterface, 2, 2, "move16", "zero16", EX_IO_SNMP_2>>,
     <<IPFIX_DestinationTransportPort, 2, 2, "move16", "zero16", COMMON_BLOCK>>,
     <<IPFIX_DestinationIPv4Address, 4, 4, "move32", "zero32", COMMON_BLOCK>>,
     <<IPFIX_DestinationIPv4PrefixLength, 1, 1, "move8", "zero8", EX_MULIPLE>>,
     <<IPFIX_egressInterface, 4, 4, "move32", "zero32", EX_IO_SNMP_4>>,
     <<IPFIX_egressInterface, 2, 2, "move16", "zero16", EX_IO_SNMP_2>>,
     <<IPFIX_ipNextHopIPv4Address, 4, 4, "move32", "zero32", EX_NEXT_HOP_v4>>,
     <<IPFIX_bgpSourceAsNumber, 4, 4, "move32", "zero32", EX_AS_4>>,
     <<IPFIX_bgpSourceAsNumber, 2, 2, "move16", "zero16", EX_AS_2>>,
     <<IPFIX_bgpDestinationAsNumber, 4, 4, "move32", "zero32", EX_AS_4>>,
     <<IPFIX_bgpDestinationAsNumber, 2, 2, "move16", "zero16", EX_AS_2>>,
     <<IPFIX_bgpNextHopIPv4Address, 4, 4, "move32", "zero32", EX_NEXT_HOP_BGP_v4>>,
     <<IPFIX_flowEndSysUpTime, 4, 4, "TimeMili", "nop", COMMON_BLOCK>>,
     <<IPFIX_flowStartSysUpTime, 4, 4, "TimeMili", "nop", COMMON_BLOCK>>,
     <<IPFIX_postOctetDeltaCount, 8, 8, "move64_sampling", "zero64", EX_OUT_BYTES_8>>,
     <<IPFIX_postOctetDeltaCount, 4, 8, "move32_sampling", "zero64", EX_OUT_BYTES_8>>,
     <<IPFIX_postPacketDeltaCount, 8, 8, "move64_sampling", "zero64", EX_OUT_PKG_8>>,
     <<IPFIX_postPacketDeltaCount, 4, 8, "move32_sampling", "zero64", EX_OUT_PKG_8>>,
     <<IPFIX_SourceIPv6Address, 16, 16, "move128", "zero128", COMMON_BLOCK>>,
     <<IPFIX_DestinationIPv6Address, 16, 16, "move128", "zero128", COMMON_BLOCK>>,
     <<IPFIX_SourceIPv6PrefixLength, 1, 1, "move8", "zero8", EX_MULIPLE>>,
     <<IPFIX_DestinationIPv6PrefixLength, 1, 1, "move8", "zero8", EX_MULIPLE>>,
     <<IPFIX_icmpTypeCodeIPv4, 2, 2, "saveICMP", "nop", COMMON_BLOCK>>,
     <<IPFIX_icmpTypeCodeIPv6, 2, 2, "saveICMP", "nop", COMMON_BLOCK>>,
     <<IPFIX_postIpClassOfService, 1, 1, "move8", "zero8", EX_MULIPLE>>,
     <<IPFIX_SourceMacAddress, 6, 8, "move_mac", "zero64", EX_MAC_1>>,
     <<IPFIX_postDestinationMacAddress, 6, 8, "move_mac", "zero64", EX_MAC_1>>,
     <<IPFIX_vlanId, 2, 2, "move16", "zero16", EX_VLAN>>,
     <<IPFIX_postVlanId, 2, 2, "move16", "zero16", EX_VLAN>>,
     <<IPFIX_flowDirection, 1, 1, "move8", "zero8", EX_MULIPLE>>,
     <<IPFIX_biflowDirection, 1, 1, "move8", "zero8", COMMON_BLOCK>>,
     <<IPFIX_flowEndReason, 1, 1, "move8", "zero8", COMMON_BLOCK>>,
     <<IPFIX_ipNextHopIPv6Address, 16, 16, "move128", "zero128", EX_NEXT_HOP_v6>>,
     <<IPFIX_bgpNextHopIPv6Address, 16, 16, "move128", "zero128", EX_NEXT_HOP_BGP_v6>>,
     <<IPFIX_mplsTopLabelStackSection, 3, 4, "move_mpls", "zero32", EX_MPLS>>,
     <<IPFIX_mplsLabelStackSection2, 3, 4, "move_mpls", "zero32", EX_MPLS>>,
     <<IPFIX_mplsLabelStackSection3, 3, 4, "move_mpls", "zero32", EX_MPLS>>,
     <<IPFIX_mplsLabelStackSection4, 3, 4, "move_mpls", "zero32", EX_MPLS>>,
     <<IPFIX_mplsLabelStackSection5, 3, 4, "move_mpls", "zero32", EX_MPLS>>,
     <<IPFIX_mplsLabelStackSection6, 3, 4, "move_mpls", "zero32", EX_MPLS>>,
     <<IPFIX_mplsLabelStackSection7, 3, 4, "move_mpls", "zero32", EX_MPLS>>,
     <<IPFIX_mplsLabelStackSection8, 3, 4, "move_mpls", "zero32", EX_MPLS>>,
     <<IPFIX_mplsLabelStackSection9, 3, 4, "move_mpls", "zero32", EX_MPLS>>,
     <<IPFIX_mplsLabelStackSection10, 3, 4, "move_mpls", "zero32", EX_MPLS>>,
     <<IPFIX_DestinationMacAddress, 6, 8, "move_mac", "zero64", EX_MAC_2>>,
     <<IPFIX_postSourceMacAddress, 6, 8, "move_mac", "zero64", EX_MAC_2>>,
     <<IPFIX_flowStartMilliseconds, 8, 8, "Time64Mili", "nop", COMMON_BLOCK>>,
     <<IPFIX_flowEndMilliseconds, 8, 8, "Time64Mili", "nop", COMMON_BLOCK>>,
     <<IPFIX_flowStartSeconds, 4, 4, "TimeUnix", "zero32", COMMON_BLOCK>>,
     <<IPFIX_flowEndSeconds, 4, 4, "TimeUnix", "zero32", COMMON_BLOCK>>,
     <<IPFIX_flowStartDeltaMicroseconds, 4, 4, "TimeDeltaMicro", "zero32", COMMON_BLOCK>>,
     <<IPFIX_flowEndDeltaMicroseconds, 4, 4, "TimeDeltaMicro", "zero32", COMMON_BLOCK>>,
     <<IPFIX_SystemInitTimeMiliseconds, 8, 8, "SystemInitTime", "nop", COMMON_BLOCK>>,
     <<IPFIX_flowDurationMilliseconds, 4, 4, "Time64MiliDur", "nop", COMMON_BLOCK>>,
     <<IPFIX_natEvent, 1, 1, "move8", "zero8", EX_NEL_COMMON>>,
     <<IPFIX_INGRESS_VRFID, 4, 4, "move32", "zero32", EX_NEL_COMMON>>,
     <<IPFIX_EGRESS_VRFID, 4, 4, "move32", "zero32", EX_NEL_COMMON>>,
     <<IPFIX_postNATSourceIPv4Address, 4, 4, "move32", "zero32", EX_NSEL_XLATE_IP_v4>>,
     <<IPFIX_postNATDestinationIPv4Address, 4, 4, "move32", "zero32", EX_NSEL_XLATE_IP_v4>>,
     <<IPFIX_postNAPTSourceTransportPort, 2, 2, "move16", "zero16", EX_NSEL_XLATE_PORTS>>,
     <<IPFIX_postNAPTDestinationTransportPort, 2, 2, "move16", "zero16", EX_NSEL_XLATE_PORTS>> >>

\* ---- other program constants ----
SKIP_ELEMENT == 0
DYN_FIELD_LENGTH == 65535
IPFIX_ReverseInformationElement == 29305
IPFIX_TEMPLATE_FLOWSET_ID == 2
IPFIX_MIN_RECORD_FLOWSET_ID == 256
BYTE_OFFSET_first == 12
SizeofExtensionMap == 10
LastExtensionIndex == 49
U16 == 65536

NULL == "NULL"

\* ------------------------------------------------------------------------
\* Element registry (ipfix_element_map) and the per-template lookup cache
\* ------------------------------------------------------------------------
NumRows == Len(ipfix_element_map)

\* ipfix_element_map[i].id, with the {0,0,0} rows before and after the table
RowId(i) == IF i >= 1 /\ i <= NumRows THEN ipfix_element_map[i][1] ELSE 0
RowLength(i) == ipfix_element_map[i][2]
RowOutLength(i) == ipfix_element_map[i][3]
RowSequence(i) == ipfix_element_map[i][4]
RowZeroSequence(i) == ipfix_element_map[i][5]
RowExtension(i) == ipfix_element_map[i][6]

KnownTypes == { ipfix_element_map[i][1] : i \in 1..NumRows }

\* The index the cache holds for Type before any field is parsed: the loop sets
\* index = i for every row whose id differs from the previous row's id.
InitialIndex(Type) ==
  LET starts == { i \in 1..NumRows : RowId(i) = Type /\ RowId(i - 1) # Type }
  IN  IF starts = {} THEN 0 ELSE CHOOSE i \in starts : \A j \in starts : j <= i

\* cache.lookup_info after the memset and the index loop
ClearedLookupInfo ==
  [ T \in KnownTypes |-> [index |-> InitialIndex(T), found |-> 0, length |-> 0] ]

LookupIndex(lookup_info, Type) ==
  IF Type \in DOMAIN lookup_info THEN lookup_info[Type].index ELSE 0
LookupFound(lookup_info, Type) ==
  IF Type \in DOMAIN lookup_info THEN lookup_info[Type].found = 1 ELSE FALSE
LookupLength(lookup_info, Type) ==
  IF Type \in DOMAIN lookup_info THEN lookup_info[Type].length ELSE 0

\* ipfixReverseMap: forward element id -> reverse (post*) element id
ipfixReverseMap(Type) ==
  CASE Type = IPFIX_octetTotalCount -> IPFIX_postOctetTotalCount
    [] Type = IPFIX_packetTotalCount -> IPFIX_postPacketTotalCount
    [] Type = IPFIX_octetDeltaCount -> IPFIX_postOctetDeltaCount
    [] Type = IPFIX_packetDeltaCount -> IPFIX_postPacketDeltaCount
    [] OTHER -> Type

\* the while loop of MapElement: scan the rows of Type from index on for Length
RECURSIVE ScanElementMap(_, _, _)
ScanElementMap(index, Type, Length) ==
  IF index = 0 \/ RowId(index) # Type THEN 0
  ELSE IF RowLength(index) = Length THEN index
  ELSE ScanElementMap(index + 1, Type, Length)

\* MapElement(Type, Length, order, EnterpriseNumber): the input_order entry it
\* leaves at [order], the lookup_info it leaves, and its return value.
MapElement(lookup_info, Type, Length, EnterpriseNumber) ==
  LET skipped == [order |-> [type |-> SKIP_ELEMENT, length |-> Length],
                  lookup_info |-> lookup_info, ext |-> -1]
  IN  IF EnterpriseNumber # 0 /\ EnterpriseNumber # IPFIX_ReverseInformationElement
      THEN skipped
      ELSE LET T == IF EnterpriseNumber = IPFIX_ReverseInformationElement
                    THEN ipfixReverseMap(Type) ELSE Type
               index == ScanElementMap(LookupIndex(lookup_info, T), T, Length)
           IN  IF index = 0 THEN skipped
               ELSE [order |-> [type |-> T, length |-> Length],
                     lookup_info |-> [lookup_info EXCEPT
                        ![T] = [index |-> index, found |-> 1, length |-> Length]],
                     ext |-> RowExtension(index)]

\* The element loop of Process_ipfix_template_add over the fields of one
\* template record: fields is a sequence of [type, length, enterprise]
\* (enterprise = 0: no enterprise bit). enabled is the set of extension ids
\* with extension_descriptor[].enabled set.
RECURSIVE ParseElements(_, _, _)
ParseElements(fields, enabled, c) ==
  IF fields = << >> THEN c
  ELSE LET f == Head(fields)
           m == MapElement(c.lookup_info, f.type, f.length, f.enterprise)
       IN  ParseElements(Tail(fields), enabled,
             [lookup_info |-> m.lookup_info,
              input_order |-> Append(c.input_order, m.order),
              common_extensions |->
                 IF m.ext >= 0 /\ m.ext \in enabled
                 THEN c.common_extensions \cup {m.ext} ELSE c.common_extensions])

ClearedCache ==
  [lookup_info |-> ClearedLookupInfo, input_order |-> << >>, common_extensions |-> {}]

\* num_extensions of Process_ipfix_template_add
NumExtensions(c) == Cardinality(c.common_extensions)

\* ------------------------------------------------------------------------
\* compact_input_order
\* ------------------------------------------------------------------------
IsFixedSkip(e) == e.type = SKIP_ELEMENT /\ e.length # DYN_FIELD_LENGTH

RemoveAt(s, k) == [ j \in 1..(Len(s) - 1) |-> IF j < k THEN s[j] ELSE s[j + 1] ]

\* the inner while loop at position i (1-based): merge i+1 into i while both
\* are fixed-length skips; the length is a uint16_t
RECURSIVE MergeAt(_, _)
MergeAt(order, i) ==
  IF i + 1 <= Len(order) /\ IsFixedSkip(order[i]) /\ IsFixedSkip(order[i + 1])
  THEN MergeAt(RemoveAt([order EXCEPT ![i] =
                  [type |-> SKIP_ELEMENT,
                   length |-> (order[i].length + order[i + 1].length) % U16]], i + 1), i)
  ELSE order

RECURSIVE CompactFrom(_, _)
CompactFrom(order, i) ==
  IF i > Len(order) THEN order
  ELSE IF order[i].type = SKIP_ELEMENT /\ order[i].length = DYN_FIELD_LENGTH
       THEN CompactFrom(order, i + 1)
       ELSE CompactFrom(MergeAt(order, i), i + 1)

\* compact_input_order: the compacted cache.input_order and the return value
compact_input_order(order) ==
  LET o == CompactFrom(order, 1)
  IN  [input_order |-> o,
       ok |-> \E i \in 1..Len(o) : o[i].type # SKIP_ELEMENT]

\* ------------------------------------------------------------------------
\* Sequencer compiler: PushSequence and setup_translation_table
\* ------------------------------------------------------------------------
\* a calloc'ed sequence_map_t slot (id 0 is nop)
ZeroSlot ==
  [id |-> "nop", skip_count |-> 0, type |-> 0, input_length |-> 0,
   output_offset |-> 0, stack |-> NULL]

\* PushSequence advancing the output offset by the length the field has on
\* the wire instead of the length it has in the output record
PushSequence_inputLength(b, lookup_info, Type, useOffset, stack) ==
  LET index == LookupIndex(lookup_info, Type)
      out == IF useOffset THEN b.offset ELSE 0
      slot == IF LookupFound(lookup_info, Type)
              THEN [id |-> RowSequence(index), skip_count |-> 0, type |-> Type,
                    input_length |-> LookupLength(lookup_info, Type),
                    output_offset |-> out, stack |-> stack]
              ELSE [id |-> RowZeroSequence(index), skip_count |-> 0, type |-> Type,
                    input_length |-> 0, output_offset |-> out, stack |-> NULL]
  IN  [b EXCEPT !.sequence = Append(b.sequence, slot),
                !.offset = IF useOffset THEN b.offset + RowLength(index) ELSE b.offset]

\* PushSequence(table, Type, offset, stack) on b = [sequence, offset, ...];
\* useOffset = FALSE stands for offset == NULL. CheckSequenceMap succeeds
\* without realloc: at most 58 pushes fit the max_ipfix_elements slots.
PushSequence(b, lookup_info, Type, useOffset, stack) ==
  LET index == LookupIndex(lookup_info, Type)
      out == IF useOffset THEN b.offset ELSE 0
      slot == IF LookupFound(lookup_info, Type)
              THEN [id |-> RowSequence(index), skip_count |-> 0, type |-> Type,
                    input_length |-> LookupLength(lookup_info, Type),
                    output_offset |-> out, stack |-> stack]
              ELSE [id |-> RowZeroSequence(index), skip_count |-> 0, type |-> Type,
                    input_length |-> 0, output_offset |-> out, stack |-> NULL]
  IN  [b EXCEPT !.sequence = Append(b.sequence, slot),
                !.offset = IF useOffset THEN b.offset + RowOutLength(index) ELSE b.offset]

\* the statements of setup_translation_table, as data
Push(Type, stack) == [k |-> "push", type |-> Type, useOffset |-> TRUE, stack |-> stack]
PushNoOffset(Type, stack) == [k |-> "push", type |-> Type, useOffset |-> FALSE, stack |-> stack]
Advance(n) == [k |-> "advance", n |-> n]

RECURSIVE RunStatements(_, _, _)
RunStatements(b, lookup_info, stmts) ==
  IF stmts = << >> THEN b
  ELSE LET s == Head(stmts)
           b1 == IF s.k = "push"
                 THEN PushSequence(b, lookup_info, s.type, s.useOffset, s.stack)
                 ELSE [b EXCEPT !.offset = b.offset + s.n]
       IN  RunStatements(b1, lookup_info, Tail(stmts))

\* the time base chosen by the first start element found (delta_time is set by
\* the first branch only)
TimeBaseStatements(li) ==
  IF LookupFound(li, IPFIX_flowStartDeltaMicroseconds)
  THEN << PushNoOffset(IPFIX_flowStartDeltaMicroseconds, "flow_start"),
          PushNoOffset(IPFIX_flowEndDeltaMicroseconds, "flow_end") >>
  ELSE IF LookupFound(li, IPFIX_flowStartMilliseconds)
  THEN << PushNoOffset(IPFIX_flowStartMilliseconds, "flow_start"),
          PushNoOffset(IPFIX_flowEndMilliseconds, "flow_end"),
          PushNoOffset(IPFIX_flowDurationMilliseconds, "duration") >>
  ELSE IF LookupFound(li, IPFIX_flowStartSysUpTime)
  THEN << PushNoOffset(IPFIX_flowStartSysUpTime, "flow_start"),
          PushNoOffset(IPFIX_flowEndSysUpTime, "flow_end"),
          PushNoOffset(IPFIX_SystemInitTimeMiliseconds, "SysUpTime") >>
  ELSE IF LookupFound(li, IPFIX_flowStartSeconds)
  THEN << PushNoOffset(IPFIX_flowStartSeconds, "flow_start"),
          PushNoOffset(IPFIX_flowEndSeconds, "flow_end") >>
  ELSE << >>

\* ipv6 of setup_translation_table
UsesIPv6(li) ==
  ~LookupFound(li, IPFIX_SourceIPv4Address) /\ LookupFound(li, IPFIX_SourceIPv6Address)

\* the common record, the address block and the counters
CommonStatements(li) ==
  << Push(IPFIX_forwardingStatus, NULL), Push(IPFIX_tcpControlBits, NULL),
     Push(IPFIX_protocolIdentifier, NULL), Push(IPFIX_ipClassOfService, NULL),
     Push(IPFIX_SourceTransportPort, NULL), Push(IPFIX_DestinationTransportPort, NULL),
     Advance(2),
     Push(IPFIX_biflowDirection, NULL), Push(IPFIX_flowEndReason, NULL) >>
  \o (IF UsesIPv6(li)
      THEN << Push(IPFIX_SourceIPv6Address, NULL), Push(IPFIX_DestinationIPv6Address, NULL) >>
      ELSE << Push(IPFIX_SourceIPv4Address, NULL), Push(IPFIX_DestinationIPv4Address, NULL) >>)
  \o << IF LookupFound(li, IPFIX_packetTotalCount)
        THEN Push(IPFIX_packetTotalCount, "packets")
        ELSE Push(IPFIX_packetDeltaCount, "packets") >>
  \o << IF LookupFound(li, IPFIX_octetTotalCount)
        THEN Push(IPFIX_octetTotalCount, "bytes")
        ELSE Push(IPFIX_octetDeltaCount, "bytes") >>

\* switch (i) of the extension loop: the pushes of extension i
ExtensionStatements(i, ipv6) ==
  CASE i = EX_IO_SNMP_2 \/ i = EX_IO_SNMP_4 ->
         << Push(IPFIX_ingressInterface, NULL), Push(IPFIX_egressInterface, NULL) >>
    [] i = EX_AS_2 \/ i = EX_AS_4 ->
         << Push(IPFIX_bgpSourceAsNumber, NULL), Push(IPFIX_bgpDestinationAsNumber, NULL) >>
    [] i = EX_MULIPLE ->
         << Push(IPFIX_postIpClassOfService, NULL), Push(IPFIX_flowDirection, NULL) >>
         \o (IF ipv6
             THEN << Push(IPFIX_SourceIPv6PrefixLength, NULL),
                     Push(IPFIX_DestinationIPv6PrefixLength, NULL) >>
             ELSE << Push(IPFIX_SourceIPv4PrefixLength, NULL),
                     Push(IPFIX_DestinationIPv4PrefixLength, NULL) >>)
    [] i = EX_NEXT_HOP_v4 -> << Push(IPFIX_ipNextHopIPv4Address, NULL) >>
    [] i = EX_NEXT_HOP_v6 -> << Push(IPFIX_ipNextHopIPv6Address, NULL) >>
    [] i = EX_NEXT_HOP_BGP_v4 -> << Push(IPFIX_bgpNextHopIPv4Address, NULL) >>
    [] i = EX_NEXT_HOP_BGP_v6 -> << Push(IPFIX_bgpNextHopIPv6Address, NULL) >>
    [] i = EX_VLAN -> << Push(IPFIX_vlanId, NULL), Push(IPFIX_postVlanId, NULL) >>
    [] i = EX_OUT_PKG_4 \/ i = EX_OUT_PKG_8 ->
         << Push(IPFIX_postPacketDeltaCount, "out_packets") >>
    [] i = EX_OUT_BYTES_4 \/ i = EX_OUT_BYTES_8 ->
         << Push(IPFIX_postOctetDeltaCount, "out_bytes") >>
    [] i = EX_MAC_1 ->
         << Push(IPFIX_SourceMacAddress, NULL), Push(IPFIX_postDestinationMacAddress, NULL) >>
    [] i = EX_MAC_2 ->
         << Push(IPFIX_DestinationMacAddress, NULL), Push(IPFIX_postSourceMacAddress, NULL) >>
    [] i = EX_MPLS ->
         << Push(IPFIX_mplsTopLabelStackSection, NULL), Push(IPFIX_mplsLabelStackSection2, NULL),
            Push(IPFIX_mplsLabelStackSection3, NULL), Push(IPFIX_mplsLabelStackSection4, NULL),
            Push(IPFIX_mplsLabelStackSection5, NULL), Push(IPFIX_mplsLabelStackSection6, NULL),
            Push(IPFIX_mplsLabelStackSection7, NULL), Push(IPFIX_mplsLabelStackSection8, NULL),
            Push(IPFIX_mplsLabelStackSection9, NULL), Push(IPFIX_mplsLabelStackSection10, NULL) >>
    [] i = EX_NEL_COMMON ->
         << Push(IPFIX_natEvent, NULL), Advance(3),
            Push(IPFIX_EGRESS_VRFID, NULL), Push(IPFIX_INGRESS_VRFID, NULL) >>
    [] i = EX_NSEL_XLATE_IP_v4 ->
         << Push(IPFIX_postNATSourceIPv4Address, NULL),
            Push(IPFIX_postNATDestinationIPv4Address, NULL) >>
    [] i = EX_NSEL_XLATE_PORTS ->
         << Push(IPFIX_postNAPTSourceTransportPort, NULL),
            Push(IPFIX_postNAPTDestinationTransportPort, NULL) >>
    [] OTHER -> << >>

\* one iteration of the extension loop for an extension with
\* cache.common_extensions[i] != 0; ex is the list of map_index values
ExtensionStep(b, li, i, ipv6, sa_family) ==
  Bind(RunStatements(b, li, ExtensionStatements(i, ipv6)), LAMBDA b1 :
      IF i = EX_ROUTER_IP_v4 \/ i = EX_ROUTER_IP_v6
      THEN IF sa_family = "INET6"
           THEN [b1 EXCEPT !.router_ip_offset = b1.offset, !.offset = b1.offset + 16,
                           !.flags = b1.flags \cup {"FLAG_IPV6_EXP"},
                           !.ex = Append(b1.ex, EX_ROUTER_IP_v6)]
           ELSE [b1 EXCEPT !.router_ip_offset = b1.offset, !.offset = b1.offset + 4,
                           !.flags = b1.flags \ {"FLAG_IPV6_EXP"},
                           !.ex = Append(b1.ex, EX_ROUTER_IP_v4)]
      ELSE IF i = EX_RECEIVED
      THEN [b1 EXCEPT !.received_offset = b1.offset, !.offset = b1.offset + 8,
                      !.ex = Append(b1.ex, i)]
      ELSE [b1 EXCEPT !.flags = b1.flags \cup
                         (IF i = EX_NEXT_HOP_v6 THEN {"FLAG_IPV6_NH"}
                          ELSE IF i = EX_NEXT_HOP_BGP_v6 THEN {"FLAG_IPV6_NHB"} ELSE {}),
                      !.ex = Append(b1.ex, i)])

\* the extension loop "for (i = 4; extension_descriptor[i].id; i++)": the next
\* i from i on with cache.common_extensions[i] != 0, 0 if the loop ends first
NextExtension(common_extensions, i) ==
  LET rest == { j \in common_extensions : j >= i /\ j <= LastExtensionIndex }
  IN  IF rest = {} THEN 0 ELSE CHOOSE j \in rest : \A k \in rest : j <= k

RECURSIVE ExtensionLoop(_, _, _, _, _, _)
ExtensionLoop(b, li, common_extensions, i, ipv6, sa_family) ==
  LET j == NextExtension(common_extensions, i)
  IN  IF j = 0 THEN b
      ELSE ExtensionLoop(ExtensionStep(b, li, j, ipv6, sa_family),
                         li, common_extensions, j + 1, ipv6, sa_family)

\* the trailing icmpTypeCode pushes
IcmpStatements(li) ==
  (IF LookupFound(li, IPFIX_icmpTypeCodeIPv4) /\ LookupLength(li, IPFIX_icmpTypeCodeIPv4) = 2
   THEN << PushNoOffset(IPFIX_icmpTypeCodeIPv4, "icmpTypeCode") >> ELSE << >>)
  \o
  (IF LookupFound(li, IPFIX_icmpTypeCodeIPv6) /\ LookupLength(li, IPFIX_icmpTypeCodeIPv6) = 2
   THEN << PushNoOffset(IPFIX_icmpTypeCodeIPv6, "icmpTypeCode") >> ELSE << >>)

\* The part of setup_translation_table that depends on the parse cache and the
\* exporter's address family only: the sequence, the output layout and the
\* list of extension ids it wants in ex_id.
BuildSequence(c, sa_family) ==
  LET li == c.lookup_info
      ipv6 == UsesIPv6(li)
      b0 == [sequence |-> << >>, offset |-> BYTE_OFFSET_first,
             router_ip_offset |-> 0, received_offset |-> 0,
             flags |-> {"FLAG_PKG_64", "FLAG_BYTES_64"} \cup
                       (IF ipv6 THEN {"FLAG_IPV6_ADDR"} ELSE {}),
             ex |-> << >>]
  IN  Bind(RunStatements(b0, li, TimeBaseStatements(li)), LAMBDA b1 :
      Bind(RunStatements([b1 EXCEPT !.offset = BYTE_OFFSET_first + 8], li,
                         CommonStatements(li)), LAMBDA b2 :
      Bind(ExtensionLoop(b2, li, c.common_extensions, 4, ipv6, sa_family), LAMBDA b3 :
      Bind(RunStatements(b3, li, IcmpStatements(li)), LAMBDA b4 :
        [sequence |-> b4.sequence, output_record_size |-> b3.offset,
         router_ip_offset |-> b4.router_ip_offset,
         received_offset |-> b4.received_offset,
         flags |-> b4.flags, ex |-> b4.ex,
         delta_time |-> IF LookupFound(li, IPFIX_flowStartDeltaMicroseconds)
                        THEN 1 ELSE 0]))))

\* ------------------------------------------------------------------------
\* reorder_sequencer
\* ------------------------------------------------------------------------
\* sequence[k] of the C array (0-based); the slots behind number_of_sequences
\* are calloc'ed
SlotAt(sequence, k) == IF k < Len(sequence) THEN sequence[k + 1] ELSE ZeroSlot

\* while (sequence[j].type != type && j < number_of_sequences) j++;
RECURSIVE FindSlot(_, _, _)
FindSlot(sequence, j, Type) ==
  IF SlotAt(sequence, j).type # Type /\ j < Len(sequence)
  THEN FindSlot(sequence, j + 1, Type)
  ELSE j

\* shift the slots n.. down by one and write the skip sequence into slot n;
\* output_offset of slot n is not assigned and keeps the shifted slot's value
InsertSkip(sequence, n, length) ==
  LET slot == [SlotAt(sequence, n) EXCEPT
                 !.id = IF length = DYN_FIELD_LENGTH THEN "dyn_skip" ELSE "nop",
                 !.skip_count = IF length = DYN_FIELD_LENGTH THEN 0 ELSE length,
                 !.type = SKIP_ELEMENT, !.input_length = 0, !.stack = NULL]
  IN  [ k \in 1..(Len(sequence) + 1) |->
          IF k < n + 1 THEN sequence[k]
          ELSE IF k = n + 1 THEN slot ELSE sequence[k - 1] ]

\* sequence[n - 1].skip_count += length (uint16_t)
MergeSkip(sequence, n, length) ==
  [sequence EXCEPT ![n].skip_count = (sequence[n].skip_count + length) % U16]

SwapSlots(sequence, n, j) ==
  [sequence EXCEPT ![n + 1] = sequence[j + 1], ![j + 1] = sequence[n + 1]]

\* one iteration of the for loop over cache.input_order; r = [sequence, n, ok].
\* n stays below number_of_sequences: setup_translation_table pushes at least
\* 12 slots and n grows by at most one per input field.
ReorderStep(r, e) ==
  IF e.type = SKIP_ELEMENT
  THEN IF e.length = DYN_FIELD_LENGTH \/ r.n = 0
       THEN [r EXCEPT !.sequence = InsertSkip(r.sequence, r.n, e.length), !.n = r.n + 1]
       ELSE [r EXCEPT !.sequence = MergeSkip(r.sequence, r.n, e.length)]
  ELSE IF SlotAt(r.sequence, r.n).type # e.type
       THEN LET j == FindSlot(r.sequence, r.n + 1, e.type)
            IN  IF j = Len(r.sequence)
                THEN IF r.n = 0
                     THEN [r EXCEPT !.ok = FALSE]
                     ELSE [r EXCEPT !.sequence = MergeSkip(r.sequence, r.n, e.length)]
                ELSE [r EXCEPT !.sequence = SwapSlots(r.sequence, r.n, j), !.n = r.n + 1]
       ELSE [r EXCEPT !.n = r.n + 1]

RECURSIVE ReorderLoop(_, _)
ReorderLoop(r, order) ==
  IF order = << >> \/ ~r.ok THEN r
  ELSE ReorderLoop(ReorderStep(r, Head(order)), Tail(order))

\* reorder_sequencer(table): the reordered table->sequence and the return value
reorder_sequencer(sequence, input_order) ==
  LET r == ReorderLoop([sequence |-> sequence, n |-> 0, ok |-> TRUE], input_order)
  IN  [sequence |-> r.sequence, ok |-> r.ok]

\* ------------------------------------------------------------------------
\* One template record through Process_ipfix_template_add, up to the point
\* where the exporter's template list is touched: parse, compact, compile,
\* reorder. accepted = FALSE: "Template does not contain any common fields".
\* reordered = FALSE: reorder_sequencer failed (the table is removed again).
\* ------------------------------------------------------------------------
ForcedExtensions(enabled) ==
  (IF EX_ROUTER_IP_v4 \in enabled THEN {EX_ROUTER_IP_v4} ELSE {}) \cup
  (IF EX_RECEIVED \in enabled THEN {EX_RECEIVED} ELSE {})

\* the pushed sequence b of the parse cache c, reordered into wire order
ReorderedSequence(c, b) ==
  Bind(reorder_sequencer(b.sequence, c.input_order), LAMBDA r :
    [accepted |-> TRUE, reordered |-> r.ok, input_order |-> c.input_order,
     pushed |-> b.sequence,
     sequence |-> r.sequence, output_record_size |-> b.output_record_size,
     router_ip_offset |-> b.router_ip_offset,
     received_offset |-> b.received_offset,
     flags |-> b.flags, ex |-> b.ex, delta_time |-> b.delta_time])

\* the parse cache c0 after the field loop: compact_input_order, the forced
\* extensions, the sequencer
CompileCache(c0, enabled, sa_family) ==
  Bind(compact_input_order(c0.input_order), LAMBDA co :
    IF NumExtensions(c0) # 0 /\ co.ok
    THEN Bind([c0 EXCEPT !.input_order = co.input_order,
                         !.common_extensions = @ \cup ForcedExtensions(enabled)],
              LAMBDA c : Bind(BuildSequence(c, sa_family),
                              LAMBDA b : ReorderedSequence(c, b)))
    ELSE [accepted |-> FALSE, reordered |-> FALSE, input_order |-> co.input_order,
          pushed |-> << >>,
          sequence |-> << >>, output_record_size |-> 0, router_ip_offset |-> 0,
          received_offset |-> 0, flags |-> {}, ex |-> << >>, delta_time |-> 0])

CompileTemplate(fields, enabled, sa_family) ==
  Bind(ParseElements(fields, enabled, ClearedCache),
       LAMBDA c0 : CompileCache(c0, enabled, sa_family))

\* ------------------------------------------------------------------------
\* The exporter's template list (input_translation_table) and its cache
\* (current_table). A table pointer is modelled as
\*   [kind |-> "NULL"], [kind |-> "listed", id |-> i]  (the list entry with id i)
\*   or [kind |-> "unlinked", table |-> t]  (a table that is in no list any more
\*   but was never freed: only current_table can hold such a pointer).
\* ex is the exporter record: input_translation_table, current_table, sampler,
\* samplerOption, SysUpOption, SysUpTime.
\* ------------------------------------------------------------------------
NullPtr == [kind |-> "NULL"]
Listed(id) == [kind |-> "listed", id |-> id]
Unlinked(t) == [kind |-> "unlinked", table |-> t]

\* position of the first list entry with this id, 0 if none
ListIndex(list, id) ==
  IF \E k \in 1..Len(list) : list[k].id = id
  THEN CHOOSE k \in 1..Len(list) : list[k].id = id /\ \A j \in 1..(k - 1) : list[j].id # id
  ELSE 0

Deref(ex, p) ==
  IF p.kind = "unlinked" THEN p.table
  ELSE ex.input_translation_table[ListIndex(ex.input_translation_table, p.id)]

PtrId(ex, p) == Deref(ex, p).id

\* GetTranslationTable without the walk over the list
GetTranslationTable_cacheOnly(ex, id) ==
  IF ex.current_table.kind # "NULL" /\ PtrId(ex, ex.current_table) = id
  THEN [table |-> ex.current_table, ex |-> ex]
  ELSE [table |-> NullPtr, ex |-> [ex EXCEPT !.current_table = NullPtr]]

\* GetTranslationTable(exporter, id): the pointer returned and the exporter
\* afterwards (the lookup rewrites current_table)
GetTranslationTable(ex, id) ==
  IF ex.current_table.kind # "NULL" /\ PtrId(ex, ex.current_table) = id
  THEN [table |-> ex.current_table, ex |-> ex]
  ELSE LET p == IF ListIndex(ex.input_translation_table, id) # 0
                THEN Listed(id) ELSE NullPtr
       IN  [table |-> p, ex |-> [ex EXCEPT !.current_table = p]]

\* a calloc'ed input_translation_t with its id set; fields is the template
\* record the table was last compiled from (ghost), map is the extension map
NewTable(id) ==
  [id |-> id, flags |-> {}, output_record_size |-> 0, delta_time |-> 0,
   router_ip_offset |-> 0, received_offset |-> 0, extension_map_changed |-> 0,
   map |-> NULL, sequence |-> << >>, fields |-> << >>,
   duration |-> [s |-> 0, ms |-> 0], HasTimeMili |-> 0, icmpTypeCode |-> 0]

\* add_translation_table(exporter, id): append at the end of the list
add_translation_table(ex, id) ==
  [table |-> Listed(id),
   ex |-> [ex EXCEPT !.input_translation_table = Append(@, NewTable(id))]]

\* store t through pointer p
StoreTable(ex, p, t) ==
  IF p.kind = "unlinked"
  THEN [ex EXCEPT !.current_table = Unlinked(t)]
  ELSE [ex EXCEPT !.input_translation_table[ListIndex(ex.input_translation_table, p.id)] = t]

\* remove_translation_table(fs, exporter, id): the exporter afterwards and
\* whether RemoveExtensionMap was called. With a parent the table is unlinked;
\* without one the list head is set to NULL, whatever follows the table.
remove_translation_table(ex, id) ==
  LET list == ex.input_translation_table
      k == ListIndex(list, id)
  IN  IF k = 0 THEN [ex |-> ex, removed |-> FALSE]
      ELSE LET cur == IF ex.current_table = Listed(id) THEN NullPtr ELSE ex.current_table
           IN  IF k > 1
               THEN [ex |-> [ex EXCEPT !.input_translation_table = RemoveAt(list, k),
                                       !.current_table = cur],
                     removed |-> TRUE]
               ELSE [ex |-> [ex EXCEPT !.input_translation_table = << >>,
                                       !.current_table =
                                          IF cur.kind = "listed" THEN Unlinked(Deref(ex, cur))
                                          ELSE cur],
                     removed |-> TRUE]

\* remove_all_translation_tables(exporter)
remove_all_translation_tables(ex) ==
  [ex EXCEPT !.input_translation_table = << >>, !.current_table = NullPtr]

\* ------------------------------------------------------------------------
\* setup_translation_table: the stateful part (extension map, refresh)
\* ------------------------------------------------------------------------
\* a malloc'ed extension map: ex_id holds the entries written so far, the
\* entries behind them are uninitialised
NewExtensionMap == [size |-> SizeofExtensionMap, ex_id |-> << >>]

\* extension_map->ex_id[k] = v  (k is 0-based and never skips an entry)
WriteExId(ex_id, k, v) ==
  IF k < Len(ex_id) THEN [ex_id EXCEPT ![k + 1] = v] ELSE Append(ex_id, v)

\* the ex_id comparison with every entry taken as changed
UpdateExId_alwaysChanged(m, wanted, k) == [ex_id |-> wanted, changed |-> 1]

\* the ex_id comparison of the extension loop: m = [ex_id, changed]
RECURSIVE UpdateExId(_, _, _)
UpdateExId(m, wanted, k) ==
  IF k >= Len(wanted) THEN m
  ELSE IF k < Len(m.ex_id) /\ m.ex_id[k + 1] = wanted[k + 1]
       THEN UpdateExId(m, wanted, k + 1)
       ELSE UpdateExId([ex_id |-> WriteExId(m.ex_id, k, wanted[k + 1]), changed |-> 1],
                       wanted, k + 1)

\* extension_map->size after the loop and the alignment
AlignedMapSize(n) ==
  LET size == SizeofExtensionMap + 2 * n
  IN  IF size % 4 # 0 THEN ((size + 3) \div 4) * 4 ELSE size

\* the terminator and the alignment entry
TerminateExId(ex_id, n) ==
  LET e1 == WriteExId(ex_id, n, 0)
  IN  IF (SizeofExtensionMap + 2 * n) % 4 # 0 THEN WriteExId(e1, n + 1, 0) ELSE e1

\* the extension ids a map announces: ex_id up to its zero terminator
RECURSIVE ExtensionTags(_)
ExtensionTags(ex_id) ==
  IF ex_id = << >> \/ Head(ex_id) = 0 THEN << >>
  ELSE << Head(ex_id) >> \o ExtensionTags(Tail(ex_id))

\* setup_translation_table(exporter, id) for the parse cache that compiled to
\* b (BuildSequence): the pointer returned and the exporter afterwards
setup_translation_table(ex, id, b, fields) ==
  LET g == GetTranslationTable(ex, id)
      a == IF g.table.kind = "NULL" THEN add_translation_table(g.ex, id) ELSE g
      old == Deref(a.ex, a.table)
      m0 == IF g.table.kind = "NULL"
            THEN [ex_id |-> NewExtensionMap.ex_id, changed |-> 1]
            ELSE [ex_id |-> old.map.ex_id, changed |-> old.extension_map_changed]
      m == UpdateExId(m0, b.ex, 0)
      t == [old EXCEPT
              !.flags = b.flags, !.delta_time = b.delta_time, !.icmpTypeCode = 0,
              !.router_ip_offset = b.router_ip_offset,
              !.received_offset = b.received_offset,
              !.extension_map_changed = m.changed,
              !.map = [size |-> AlignedMapSize(Len(b.ex)),
                       ex_id |-> TerminateExId(m.ex_id, Len(b.ex))],
              !.output_record_size = b.output_record_size,
              !.sequence = b.sequence, !.fields = fields]
  IN  [table |-> IF a.table.kind = "unlinked" THEN Unlinked(t) ELSE a.table,
       ex |-> StoreTable(a.ex, a.table, t)]

\* ------------------------------------------------------------------------
\* Process_ipfix_template_add and Process_ipfix_template_withdraw, one
\* template record at a time. A template record is [id, fields]; a record
\* with no fields has field-count 0.
\* ------------------------------------------------------------------------
\* One iteration of the while loop of Process_ipfix_template_add. callocNull:
\* calloc(0, ..) returned NULL for a record with field-count 0, which ends the
\* loop. The result names the calls made to the downstream writer.
template_add_record(ex, rec, enabled, sa_family, callocNull) ==
  LET none == [ex |-> ex, enabled |-> enabled, accepted |-> FALSE,
               AddExtensionMap |-> FALSE, RemoveExtensionMap |-> FALSE, stop |-> FALSE]
      \* extension_descriptor[EX_ROUTER_ID].enabled = 0
      enabled1 == enabled \ {EX_ROUTER_ID}
      \* AddExtensionMap, extension_map_changed = 0, then the reordered
      \* sequence, for the table t0 that setup_translation_table returned in s
      Installed1(c, s, t0) ==
        StoreTable(s.ex, s.table, [t0 EXCEPT !.extension_map_changed = 0,
                                             !.sequence = c.sequence])
      Reordered(c, changed, ex1) ==
        IF c.reordered
        THEN [ex |-> ex1, enabled |-> enabled1, accepted |-> TRUE,
              AddExtensionMap |-> changed, RemoveExtensionMap |-> FALSE,
              stop |-> FALSE]
        ELSE Bind(remove_translation_table(ex1, rec.id), LAMBDA r :
               [ex |-> r.ex, enabled |-> enabled1, accepted |-> FALSE,
                AddExtensionMap |-> changed, RemoveExtensionMap |-> r.removed,
                stop |-> FALSE])
      Compiled(c) ==
        IF ~c.accepted THEN none
        ELSE Bind(setup_translation_table(ex, rec.id, [c EXCEPT !.sequence = c.pushed],
                                          rec.fields), LAMBDA s :
             Bind(Deref(s.ex, s.table), LAMBDA t0 :
             Bind(Installed1(c, s, t0), LAMBDA ex1 :
               Reordered(c, t0.extension_map_changed # 0, ex1))))
  IN  IF rec.fields = << >> THEN [none EXCEPT !.stop = callocNull]
      ELSE Bind(CompileTemplate(rec.fields, enabled, sa_family), LAMBDA c : Compiled(c))

\* The 4-byte words of a template record as Process_ipfix_template_withdraw
\* reads them: each word is taken for a record header and its first 16 bits
\* for a template id. A field specifier is one word (type, with the
\* enterprise bit, and length) plus one word for an enterprise number.
RECURSIVE FieldWords(_)
FieldWords(fields) ==
  IF fields = << >> THEN << >>
  ELSE LET f == Head(fields)
       IN  (IF f.enterprise # 0
            THEN << f.type + 32768, f.enterprise \div 65536 >>
            ELSE << f.type >>) \o FieldWords(Tail(fields))

RecordWords(rec) == << rec.id >> \o FieldWords(rec.fields)

\* the iterations of the while loop of Process_ipfix_template_withdraw over
\* these words; w = [ex, removed, reinit]
RECURSIVE withdraw_words(_, _)
withdraw_words(w, ids) ==
  IF ids = << >> THEN w
  ELSE LET id == Head(ids)
       IN  IF id = IPFIX_TEMPLATE_FLOWSET_ID
           THEN withdraw_words([ex |-> remove_all_translation_tables(w.ex),
                                removed |-> w.removed, reinit |-> TRUE], Tail(ids))
           ELSE LET r == remove_translation_table(w.ex, id)
                IN  withdraw_words([ex |-> r.ex,
                                    removed |-> IF r.removed THEN w.removed \cup {id}
                                                ELSE w.removed,
                                    reinit |-> w.reinit], Tail(ids))

template_withdraw_record(ex, rec) ==
  withdraw_words([ex |-> ex, removed |-> {}, reinit |-> FALSE], RecordWords(rec))

\* GetTranslationTable would return a table for id (no change of state)
Installed(ex, id) == GetTranslationTable(ex, id).table.kind # "NULL"

\* ------------------------------------------------------------------------
\* Process_ipfix_data: sampling rate, and which data records are emitted
\* ------------------------------------------------------------------------
\* the sampler with id -1 (the while loop over exporter->sampler), 0 if none
StdSamplerIndex(samplers) ==
  IF \E k \in 1..Len(samplers) : samplers[k].id = -1
  THEN CHOOSE k \in 1..Len(samplers) :
         samplers[k].id = -1 /\ \A j \in 1..(k - 1) : samplers[j].id # -1
  ELSE 0

\* sampling_rate of Process_ipfix_data
SamplingRate(samplers, default, overwrite) ==
  IF overwrite > 0 THEN overwrite
  ELSE IF StdSamplerIndex(samplers) # 0
       THEN samplers[StdSamplerIndex(samplers)].interval
       ELSE default

\* in[k] (0-based); pad is the byte the receive buffer holds behind the data
ByteAt(bytes, k, pad) == IF k < Len(bytes) THEN bytes[k + 1] ELSE pad

\* the big-endian value of the bytes b (Get_val16 .. Get_val64, Get_val)
RECURSIVE Unsigned(_)
Unsigned(b) == IF b = << >> THEN 0 ELSE 256 * Unsigned(SubSeq(b, 1, Len(b) - 1)) + b[Len(b)]

\* the input bytes one sequencer step consumes, at input_offset
StepLength(op, bytes, input_offset, pad) ==
  IF op.id = "dyn_skip"
  THEN LET skip == ByteAt(bytes, input_offset, pad)
       IN  (IF skip < 255 THEN skip + 1
            ELSE 256 * ByteAt(bytes, input_offset + 1, pad)
                 + ByteAt(bytes, input_offset + 2, pad) + 3)
           + op.input_length + op.skip_count
  ELSE op.input_length + op.skip_count

\* in += input_offset: the bytes of the data set behind the first n
DropBytes_oneShort(bytes, n) == [ k \in 1..(Len(bytes) - n + 1) |-> bytes[k + n - 1] ]
DropBytes(bytes, n) == [ k \in 1..(Len(bytes) - n) |-> bytes[k + n] ]

\* A time in milliseconds (uint64_t flow_start, flow_end, duration, SysUpTime)
\* is kept as [s, ms] with value 1000 * s + ms and ms < 1000.
\* The big-endian value of the bytes b, read as milliseconds.
RECURSIVE MsecValue(_)
MsecValue(b) ==
  IF b = << >> THEN [s |-> 0, ms |-> 0]
  ELSE LET p == MsecValue(SubSeq(b, 1, Len(b) - 1))
           r == 256 * p.ms + b[Len(b)]
       IN  [s |-> 256 * p.s + r \div 1000, ms |-> r % 1000]

MsecSum_noCarry(a, b) == [s |-> a.s + b.s, ms |-> (a.ms + b.ms) % 1000]
MsecSum(a, b) ==
  [s |-> a.s + b.s + (a.ms + b.ms) \div 1000, ms |-> (a.ms + b.ms) % 1000]

\* ((1000000 * ExportTime) - DeltaMicroSec) / 1000, for a delta that does not
\* reach back before the epoch
MsecBefore(ExportTime, DeltaMicroSec) ==
  LET dms == (DeltaMicroSec + 999) \div 1000
  IN  [s |-> ExportTime - (dms + 999) \div 1000, ms |-> (1000 - (dms % 1000)) % 1000]

\* the input bytes the switch case of op reads at in[input_offset]
ReadWidth(op, bytes, input_offset, pad) ==
  CASE op.id \in {"move8"} -> 1
    [] op.id \in {"move16", "saveICMP", "move_flags"} -> 2
    [] op.id \in {"move_mpls"} -> 3
    [] op.id \in {"move32", "move32_sampling", "Time64MiliDur", "TimeUnix",
                  "TimeDeltaMicro", "TimeMili"} -> 4
    [] op.id \in {"move40"} -> 5
    [] op.id \in {"move48", "move48_sampling", "move_mac"} -> 6
    [] op.id \in {"move56"} -> 7
    [] op.id \in {"move64", "move64_sampling", "Time64Mili", "SystemInitTime"} -> 8
    [] op.id \in {"move128"} -> 16
    [] op.id = "dyn_skip" -> IF ByteAt(bytes, input_offset, pad) < 255 THEN 1 ELSE 3
    [] OTHER -> 0

\* One pass of the for loop over table->sequence: the switch and the advance of
\* input_offset. x = [input_offset, overrun, out, st, read_end]: out maps the
\* output offsets written so far to the values written there, st holds the
\* variables the stack pointers point to, read_end is the end of the input
\* bytes read so far.
ExecOp(op, bytes, pad, rate, ExportTime, x) ==
  LET at == x.input_offset
      In(n) == [ k \in 1..n |-> ByteAt(bytes, at + k - 1, pad) ]
      val(n) == Unsigned(In(n))
      o == op.output_offset
      Write(out, k, v) == [ j \in DOMAIN out \cup {k} |-> IF j = k THEN v ELSE out[j] ]
      Stack(st, v) == IF op.stack = NULL THEN st ELSE [st EXCEPT ![op.stack] = v]
      w == ReadWidth(op, bytes, at, pad)
      out1 ==
        CASE op.id \in {"move8", "move16", "move32", "move40", "move48", "move56",
                        "move64", "move_mpls", "move_mac"} -> Write(x.out, o, val(w))
          [] op.id = "move128" ->
               Write(Write(x.out, o, Unsigned(SubSeq(In(16), 1, 8))),
                     o + 8, Unsigned(SubSeq(In(16), 9, 16)))
          [] op.id \in {"move32_sampling", "move48_sampling", "move64_sampling"} ->
               Write(x.out, o, val(w) * rate)
          [] op.id = "move_flags" -> Write(x.out, o, val(2) % 256)
          [] op.id \in {"zero8", "zero16", "zero32", "zero64"} -> Write(x.out, o, 0)
          [] op.id = "zero128" -> Write(Write(x.out, o, 0), o + 8, 0)
          [] OTHER -> x.out
      st1 ==
        CASE op.id \in {"move32_sampling", "move48_sampling", "move64_sampling"} ->
               Stack(x.st, val(w) * rate)
          [] op.id \in {"Time64Mili", "Time64MiliDur", "SystemInitTime"} ->
               Stack(x.st, MsecValue(In(w)))
          [] op.id = "TimeUnix" -> Stack(x.st, [s |-> val(4), ms |-> 0])
          [] op.id = "TimeDeltaMicro" -> Stack(x.st, MsecBefore(ExportTime, val(4)))
          [] op.id = "TimeMili" -> [Stack(x.st, MsecValue(In(4))) EXCEPT !.HasTimeMili = 1]
          [] op.id = "saveICMP" -> Stack(x.st, val(2))
          [] OTHER -> x.st
  IN  [input_offset |-> at + StepLength(op, bytes, at, pad), overrun |-> FALSE,
       out |-> out1, st |-> st1,
       read_end |-> IF w > 0 /\ at + w > x.read_end THEN at + w ELSE x.read_end]

\* the for loop over table->sequence with the check "input_offset > size_left"
\* before each step
RECURSIVE ExecSequence(_, _, _, _, _, _)
ExecSequence(sequence, bytes, pad, rate, ExportTime, x) ==
  IF sequence = << >> THEN x
  ELSE IF x.input_offset > Len(bytes) THEN [x EXCEPT !.overrun = TRUE]
  ELSE \* the step is bound to y so that it is evaluated once
       Bind(ExecOp(Head(sequence), bytes, pad, rate, ExportTime, x), LAMBDA y :
            ExecSequence(Tail(sequence), bytes, pad, rate, ExportTime, y))

\* the variables of the table the stack pointers point to, as one data record
\* finds them: flow_start .. out_bytes are reset, the others are left as the
\* record before (or setup_translation_table) left them
ScratchFrame(t) ==
  [flow_start |-> MsecValue(<< >>), flow_end |-> MsecValue(<< >>),
   SysUpTime |-> MsecValue(<< >>), packets |-> 0, bytes |-> 0, out_packets |-> 0,
   out_bytes |-> 0, duration |-> t.duration, HasTimeMili |-> t.HasTimeMili,
   icmpTypeCode |-> t.icmpTypeCode]

\* The body of the while loop for one data record after the sequencer ran to
\* its end (x): the ICMP ports, the times and their sanity gate; the record
\* as it stands in the output buffer.
\* SysUpTime is exporter->SysUpTime. The record's type and size are its first
\* four bytes: an op with output_offset 0 overwrites them.
FinishRecord(t, SysUpTime, x) ==
  LET Offset(Type) ==
        t.sequence[CHOOSE n \in 1..Len(t.sequence) : t.sequence[n].type = Type].output_offset
      Write(out, k, v) == [ j \in DOMAIN out \cup {k} |-> IF j = k THEN v ELSE out[j] ]
      IsZero(m) == m.s = 0 /\ m.ms = 0
      prot == x.out[Offset(IPFIX_protocolIdentifier)]
      icmp == prot \in {1, 58} /\ x.st.icmpTypeCode # 0
      out1 == IF icmp
              THEN Write(Write(x.out, Offset(IPFIX_SourceTransportPort), 0),
                         Offset(IPFIX_DestinationTransportPort), x.st.icmpTypeCode)
              ELSE x.out
      base == IF ~IsZero(x.st.SysUpTime) /\ x.st.HasTimeMili # 0 THEN x.st.SysUpTime
              ELSE IF ~IsZero(SysUpTime) /\ x.st.HasTimeMili # 0 THEN SysUpTime
              ELSE MsecValue(<< >>)
      flow_start == MsecSum(x.st.flow_start, base)
      end0 == MsecSum(x.st.flow_end, base)
      flow_end == IF ~IsZero(flow_start) /\ ~IsZero(x.st.duration) /\ IsZero(end0)
                  THEN MsecSum(flow_start, x.st.duration) ELSE end0
      invalid == flow_start.s < 820454400 \/ (flow_end.s # 0 /\ flow_end.s < 820454400)
  IN  [size |-> IF 0 \in DOMAIN x.out THEN 0 ELSE t.output_record_size,
       flags |-> t.flags,
       first |-> IF invalid THEN 0 ELSE flow_start.s,
       msec_first |-> IF invalid THEN 0 ELSE flow_start.ms,
       last |-> IF invalid THEN 0 ELSE flow_end.s,
       msec_last |-> IF invalid THEN 0 ELSE flow_end.ms,
       prot |-> prot,
       srcport |-> out1[Offset(IPFIX_SourceTransportPort)],
       dstport |-> out1[Offset(IPFIX_DestinationTransportPort)],
       out |-> out1,
       \* ghost: table->flow_start and flow_end before the sanity gate
       flow_start |-> flow_start, flow_end |-> flow_end]

\* the while loop over the data records of a data set; space is the number of
\* records CheckBufferSpace grants. d: emitted, the records written to the
\* output buffer (NumRecords, exporter->flows, numflows); processed, the
\* records counted in PacketSequence; read_end, the end of the input bytes
\* read, counted from the start of the data set; t, the table.
\* the sequencer run over one data record that begins at bytes[1]
RunRecord(t, bytes, pad, rate, ExportTime) ==
  ExecSequence(t.sequence, bytes, pad, rate, ExportTime,
               [input_offset |-> 0, overrun |-> FALSE, out |-> << >>,
                st |-> ScratchFrame(t), read_end |-> 0])

RECURSIVE DataLoop(_, _, _, _, _, _, _, _)
DataLoop(bytes, space, pad, rate, ExportTime, SysUpTime, consumed, d) ==
  IF Len(bytes) < 4 THEN d
  ELSE IF space = 0 THEN d
  ELSE Bind(RunRecord(d.t, bytes, pad, rate, ExportTime), LAMBDA x :
       Bind([d EXCEPT !.processed = @ + 1,
                      !.read_end = IF x.read_end > 0 /\ consumed + x.read_end > @
                                   THEN consumed + x.read_end ELSE @,
                      !.t = [@ EXCEPT !.HasTimeMili = x.st.HasTimeMili,
                                      !.duration = x.st.duration,
                                      !.icmpTypeCode = x.st.icmpTypeCode]], LAMBDA d1 :
         IF x.overrun THEN d1
         ELSE Bind([d1 EXCEPT !.emitted = @ + 1,
                              !.records = Append(@, FinishRecord(d.t, SysUpTime, x))],
                   LAMBDA d2 :
                IF x.input_offset > Len(bytes) THEN d2
                ELSE DataLoop(DropBytes(bytes, x.input_offset), space - 1, pad, rate,
                              ExportTime, SysUpTime, consumed + x.input_offset, d2))))

\* Process_ipfix_data(exporter, ExportTime, data_flowset, fs, table)
Process_ipfix_data(ex, p, ExportTime, bytes, space, pad, default, overwrite) ==
  LET t == Deref(ex, p)
      rate == SamplingRate(ex.sampler, default, overwrite)
      t1 == IF rate # 1 THEN [t EXCEPT !.flags = @ \cup {"FLAG_SAMPLED"}] ELSE t
  IN  Bind(DataLoop(bytes, space, pad, rate, ExportTime, ex.SysUpTime, 0,
                    [emitted |-> 0, processed |-> 0, records |-> << >>,
                     read_end |-> 0, t |-> t1]), LAMBDA d :
        [ex |-> StoreTable(ex, p, d.t), sampling_rate |-> rate,
         emitted |-> d.emitted, processed |-> d.processed, records |-> d.records,
         read_end |-> d.read_end])

\* ------------------------------------------------------------------------
\* Option templates, option data and the sampler list
\* ------------------------------------------------------------------------
IPFIX_samplingInterval == 34
IPFIX_samplingAlgorithm == 35
IPFIX_samplerId == 48
IPFIX_samplerMode == 49
IPFIX_samplerRandomInterval == 50
IPFIX_selectorId == 302
IPFIX_selectorAlgorithm == 304
IPFIX_samplingPacketInterval == 305

SAMPLERMASK == {"SAMPLER302", "SAMPLER304", "SAMPLER305"}
STDMASK == {"STDSAMPLING34", "STDSAMPLING35"}

NoTag == [offset |-> 0, length |-> 0]

\* a memset samplerOption_t with its tableID set
NewSamplerOption(tableID) ==
  [tableID |-> tableID, flags |-> {}, id |-> NoTag, mode |-> NoTag, interval |-> NoTag]

\* the bytes of these field specifiers in a template record: 4 each, and 4
\* more for an enterprise number
FieldBytes(fields) ==
  4 * Len(fields) + 4 * Cardinality({ n \in 1..Len(fields) : fields[n].enterprise # 0 })

\* size_left of Process_ipfix_option_templates is uint32_t and wraps when 4 is
\* subtracted from a value below 4; it is never large enough to wrap back. A
\* negative size_left stands for the wrapped value size_left + 2^32.
Below4(size_left) == size_left >= 0 /\ size_left < 4

\* what the code takes for a field specifier where the record has none: four
\* of the bytes behind the field specifiers, each of them pad. The enterprise
\* bit is the top bit of the first byte; the enterprise number is not used.
PadSpecifier(pad) ==
  [type |-> (256 * pad + pad) % 32768, length |-> 256 * pad + pad,
   enterprise |-> IF pad >= 128 THEN 1 ELSE 0]

\* the scope loop of Process_ipfix_option_templates, n iterations, over the
\* field specifiers and, when n is more than the field count, over what is
\* behind them: o = [samplerOption, SysUpOption, offset, size_left, rejected,
\* pad]; offset += length (uint16_t); rejected: the function has returned
RECURSIVE ScopeLoop(_, _, _)
ScopeLoop(o, fields, n) ==
  IF n = 0 \/ o.rejected THEN o
  ELSE LET f == IF fields = << >> THEN PadSpecifier(o.pad) ELSE Head(fields)
       IN  IF o.size_left # 0 /\ Below4(o.size_left) THEN [o EXCEPT !.rejected = TRUE]
           ELSE IF f.enterprise # 0 /\ Below4(o.size_left - 4)
           THEN [o EXCEPT !.rejected = TRUE, !.size_left = @ - 4]
           ELSE ScopeLoop([o EXCEPT !.offset = (@ + f.length) % U16,
                                    !.size_left = @ - (IF f.enterprise # 0 THEN 8 ELSE 4)],
                          IF fields = << >> THEN fields ELSE Tail(fields), n - 1)

\* the option loop over the field specifiers behind the scope; the switch is
\* on the 16-bit type with its enterprise bit
RECURSIVE OptionLoop(_, _)
OptionLoop(o, fields) ==
  IF fields = << >> \/ o.rejected THEN o
  ELSE LET f == Head(fields)
           type == IF f.enterprise # 0 THEN f.type + 32768 ELSE f.type
           tag == [offset |-> o.offset, length |-> f.length]
           so == o.samplerOption
           o1 == CASE type = IPFIX_samplingInterval ->
                        [o EXCEPT !.samplerOption =
                           [so EXCEPT !.interval = tag, !.flags = @ \cup {"STDSAMPLING34"}]]
                   [] type = IPFIX_samplingAlgorithm ->
                        [o EXCEPT !.samplerOption =
                           [so EXCEPT !.mode = tag, !.flags = @ \cup {"STDSAMPLING35"}]]
                   [] type = IPFIX_samplerId \/ type = IPFIX_selectorId ->
                        [o EXCEPT !.samplerOption =
                           [so EXCEPT !.id = tag, !.flags = @ \cup {"SAMPLER302"}]]
                   [] type = IPFIX_samplerMode \/ type = IPFIX_selectorAlgorithm ->
                        [o EXCEPT !.samplerOption =
                           [so EXCEPT !.mode = tag, !.flags = @ \cup {"SAMPLER304"}]]
                   [] type = IPFIX_samplerRandomInterval \/ type = IPFIX_samplingPacketInterval ->
                        [o EXCEPT !.samplerOption =
                           [so EXCEPT !.interval = tag, !.flags = @ \cup {"SAMPLER305"}]]
                   [] type = IPFIX_SystemInitTimeMiliseconds ->
                        [o EXCEPT !.SysUpOption = tag]
                   [] OTHER -> o
       IN  IF f.enterprise # 0 /\ Below4(o.size_left - 4)
           THEN [o EXCEPT !.rejected = TRUE, !.size_left = @ - 4]
           ELSE OptionLoop([o1 EXCEPT !.offset = (o.offset + f.length) % U16,
                                      !.size_left = @ - (IF f.enterprise # 0 THEN 8 ELSE 4)],
                           Tail(fields))

\* InsertSamplerOption(exporter, samplerOption): replace the entry of the same
\* tableID in place, or push the new entry in front
InsertSamplerOption(list, so) ==
  IF \E k \in 1..Len(list) : list[k].tableID = so.tableID
  THEN LET k == CHOOSE k \in 1..Len(list) :
                  list[k].tableID = so.tableID /\ \A j \in 1..(k - 1) : list[j].tableID # so.tableID
       IN  [list EXCEPT ![k] = so]
  ELSE << so >> \o list

\* Process_ipfix_option_templates for the Options Template Set with this
\* flowset_length (above 4) and the option template record
\* ot = [tableID, scope_field_count, fields]; the field count is the number
\* of fields, and pad is the byte the buffer holds behind the field
\* specifiers. SysUpOption is written inside the option loop. The result is
\* the exporter and size_left when the function returns.
option_templates(ex, ot, flowset_length, pad) ==
  IF flowset_length - 4 < 6 THEN [ex |-> ex, size_left |-> flowset_length - 4]
  ELSE IF ot.scope_field_count = 0 THEN [ex |-> ex, size_left |-> flowset_length - 10]
  ELSE IF flowset_length - 10 < 4 * Len(ot.fields)
  THEN [ex |-> ex, size_left |-> flowset_length - 10]
  ELSE LET n == ot.scope_field_count
           o == OptionLoop(ScopeLoop([samplerOption |-> NewSamplerOption(ot.tableID),
                                      SysUpOption |-> ex.SysUpOption, offset |-> 0,
                                      size_left |-> flowset_length - 10,
                                      rejected |-> FALSE, pad |-> pad], ot.fields, n),
                           SubSeq(ot.fields, n + 1, Len(ot.fields)))
           so == o.samplerOption
       IN  [ex |-> [ex EXCEPT !.SysUpOption = o.SysUpOption,
                              !.samplerOption =
                                 IF o.rejected THEN @
                                 ELSE IF so.flags \cap SAMPLERMASK # {}
                                         \/ so.flags \cap STDMASK # {}
                                 THEN InsertSamplerOption(@, so) ELSE @],
            size_left |-> o.size_left]

Process_ipfix_option_templates(ex, ot, flowset_length) ==
  option_templates(ex, ot, flowset_length, 0).ex

\* Get_val(p, index, length): the big-endian value of 1..8 bytes, 0 for any
\* other length. The value is kept as its bytes (<< >> is 0) and narrowed by
\* the conversion to the type of the variable it is assigned to.
Get_val(bytes, index, length) ==
  IF length >= 1 /\ length <= 8
  THEN [ k \in 1..length |-> ByteAt(bytes, index + k - 1, 0) ]
  ELSE << >>

\* the low n bytes of a value
LowBytes(b, n) == IF Len(b) > n THEN SubSeq(b, Len(b) - n + 1, Len(b)) ELSE b

\* the value converted to uint16_t, uint32_t and int32_t
ToUint16(b) == Unsigned(LowBytes(b, 2))
ToUint32(b) == Unsigned(LowBytes(b, 4))
ToInt32(b) ==
  LET l == LowBytes(b, 4)
  IN  IF Len(l) = 4 /\ l[1] >= 128
      THEN (l[1] - 256) * 16777216 + Unsigned(Tail(l))
      ELSE Unsigned(l)

\* CHECK_OPTION_DATA(avail, tag)
CHECK_OPTION_DATA(avail, tag) == tag.offset + tag.length <= avail

\* InsertSampler(fs, exporter, id, mode, interval): the list afterwards
InsertSampler(samplers, id, mode, interval) ==
  IF \E k \in 1..Len(samplers) : samplers[k].id = id
  THEN LET k == CHOOSE k \in 1..Len(samplers) :
                  samplers[k].id = id /\ \A j \in 1..(k - 1) : samplers[j].id # id
       IN  [samplers EXCEPT ![k] = [id |-> id, mode |-> mode, interval |-> interval]]
  ELSE Append(samplers, [id |-> id, mode |-> mode, interval |-> interval])

\* the samplerOption of tableID, 0 if none
SamplerOptionIndex(list, tableID) ==
  IF \E k \in 1..Len(list) : list[k].tableID = tableID
  THEN CHOOSE k \in 1..Len(list) :
         list[k].tableID = tableID /\ \A j \in 1..(k - 1) : list[j].tableID # tableID
  ELSE 0

\* HasOptionTable(exporter, tableID)
HasOptionTable(ex, tableID) ==
  ex.SysUpOption.length # 0 \/ SamplerOptionIndex(ex.samplerOption, tableID) # 0

\* the sampler_info records InsertSampler hands to FlushInfoSampler, as they
\* stand when it is called: the record of a new sampler, and for a sampler
\* whose mode or interval changes the record before the two are assigned
FlushInfoSampler(samplers, id, mode, interval) ==
  IF \E k \in 1..Len(samplers) : samplers[k].id = id
  THEN LET k == CHOOSE k \in 1..Len(samplers) :
                  samplers[k].id = id /\ \A j \in 1..(k - 1) : samplers[j].id # id
       IN  IF mode # samplers[k].mode \/ interval # samplers[k].interval
           THEN << samplers[k] >> ELSE << >>
  ELSE << [id |-> id, mode |-> mode, interval |-> interval] >>

\* Process_ipfix_option_data(exporter, data_flowset, fs): the exporter
\* afterwards and the records flushed
option_data(ex, tableID, bytes) ==
  LET avail == Len(bytes)
      sysOk == CHECK_OPTION_DATA(avail, ex.SysUpOption)
      ex1 == IF ex.SysUpOption.length # 0
             THEN [ex EXCEPT !.SysUpTime =
                      MsecValue(Get_val(bytes, ex.SysUpOption.offset, ex.SysUpOption.length))]
             ELSE ex
      k == SamplerOptionIndex(ex.samplerOption, tableID)
      none(e) == [ex |-> e, flushed |-> << >>]
  IN  IF ex.SysUpOption.length # 0 /\ ~sysOk THEN none(ex)
      ELSE IF k = 0 THEN none(ex1)
      ELSE LET so == ex.samplerOption[k]
               val(tag) == Get_val(bytes, tag.offset, tag.length)
               smpOk == CHECK_OPTION_DATA(avail, so.id) /\ CHECK_OPTION_DATA(avail, so.mode)
                        /\ CHECK_OPTION_DATA(avail, so.interval)
               stdOk == CHECK_OPTION_DATA(avail, so.mode) /\ CHECK_OPTION_DATA(avail, so.interval)
               r2 == IF so.flags \cap SAMPLERMASK # {}
                     THEN [ex |-> [ex1 EXCEPT !.sampler =
                              InsertSampler(@, ToInt32(val(so.id)), ToUint16(val(so.mode)),
                                            ToUint32(val(so.interval)))],
                           flushed |->
                              FlushInfoSampler(ex1.sampler, ToInt32(val(so.id)),
                                               ToUint16(val(so.mode)),
                                               ToUint32(val(so.interval)))]
                     ELSE none(ex1)
           IN  IF so.flags \cap SAMPLERMASK # {} /\ ~smpOk THEN none(ex1)
               ELSE IF so.flags \cap STDMASK # {}
                    THEN IF stdOk
                         THEN [ex |-> [r2.ex EXCEPT !.sampler =
                                 InsertSampler(@, -1, ToUint16(val(so.mode)),
                                               ToUint32(val(so.interval)))],
                               flushed |-> r2.flushed \o
                                 FlushInfoSampler(r2.ex.sampler, -1, ToUint16(val(so.mode)),
                                                  ToUint32(val(so.interval)))]
                         ELSE r2
                    ELSE r2

Process_ipfix_option_data(ex, tableID, bytes) == option_data(ex, tableID, bytes).ex

\* ------------------------------------------------------------------------
\* Process_ipfix_templates: a Template Set is a sequence of template records.
\* The field-count of the first record selects the function that walks the
\* whole set (the path); each iteration of its while loop is one step.
\* ------------------------------------------------------------------------
MaxTemplates == 3
FirstTemplateId == IPFIX_MIN_RECORD_FLOWSET_ID
TemplateIds == FirstTemplateId..(FirstTemplateId + MaxTemplates - 1)

InstalledIds(ex) == { i \in TemplateIds : Installed(ex, i) }

\* the table GetTranslationTable would return for id, NULL if none
TableOf(ex, id) ==
  LET g == GetTranslationTable(ex, id)
  IN  IF g.table.kind = "NULL" THEN NULL ELSE Deref(g.ex, g.table)

\* the path Process_ipfix_templates takes for a set that starts with rec
TemplatePath(rec) == IF rec.fields = << >> THEN "withdraw" ELSE "add"

\* One iteration of the loop of the path over template record rec: the
\* exporter and the enabled extensions afterwards, the path the rest of the
\* set takes ("skip": the add loop has ended, what follows is not read), and
\* what was done.
template_record(ex, rec, path, enabled, sa_family, callocNull) ==
  LET none == [accepted |-> FALSE, AddExtensionMap |-> FALSE,
               RemoveExtensionMap |-> FALSE, removed |-> {}, reinit |-> FALSE]
  IN  CASE path = "add" ->
             Bind(template_add_record(ex, rec, enabled, sa_family, callocNull),
                  LAMBDA r :
                    [ex |-> r.ex, enabled |-> r.enabled,
                     path |-> IF r.stop THEN "skip" ELSE "add",
                     did |-> [none EXCEPT !.accepted = r.accepted,
                                          !.AddExtensionMap = r.AddExtensionMap,
                                          !.RemoveExtensionMap = r.RemoveExtensionMap]])
        [] path = "withdraw" ->
             Bind(template_withdraw_record(ex, rec), LAMBDA r :
                    [ex |-> r.ex, enabled |-> enabled, path |-> "withdraw",
                     did |-> [none EXCEPT !.RemoveExtensionMap = rec.id \in r.removed,
                                          !.removed = r.removed, !.reinit = r.reinit]])
        [] OTHER -> [ex |-> ex, enabled |-> enabled, path |-> path, did |-> none]

\* ------------------------------------------------------------------------
\* The extension map list of the flow source, which the downstream writer
\* keeps. A map is known by the table it belongs to: the observation domain
\* of the exporter and the template id.
\* ------------------------------------------------------------------------
ExtensionMap(domain, id) == [exporter |-> domain, id |-> id]

AddExtensionMap(list, map) == list \cup {map}
RemoveExtensionMap(list, map) == list \ {map}
ReInitExtensionMapList(list) == {}

\* the calls one iteration of the template loops makes (did), in the order
\* of the code, for the exporter of this observation domain
MapCalls(list, domain, id, did) ==
  LET added == IF did.AddExtensionMap
               THEN AddExtensionMap(list, ExtensionMap(domain, id)) ELSE list
      removed == did.removed \cup (IF did.RemoveExtensionMap THEN {id} ELSE {})
  IN  IF did.reinit THEN ReInitExtensionMapList(added)
      ELSE added \ { ExtensionMap(domain, i) : i \in removed }

\* ------------------------------------------------------------------------
\* State
\* ------------------------------------------------------------------------
VARIABLES
  extension_enabled,   \* ids with extension_descriptor[id].enabled set
  sa_family,           \* fs->sa_family: "INET" or "INET6"
  default_sampling,    \* Init_IPFIX(sampling)
  overwrite_sampling,  \* Init_IPFIX(overwrite)
  exporter,            \* the exporterDomain_t GetExporter returned for the packet
  fs,                  \* the FlowSource_t: its other exporters, its extension map list
  template_path,       \* "idle", or the path of the Template Set being walked
  wire,                \* the field specifiers of a template record being sent
  withdrawn,           \* ghost: ids of field-count 0 records not accepted again since
  stat,                \* the exporter's entry and its counters, as Process_IPFIX keeps them
  last                 \* ghost: what the last step did

vars == << extension_enabled, sa_family, default_sampling, overwrite_sampling,
           exporter, fs, template_path, wire, withdrawn, stat, last >>

config == << sa_family, default_sampling, overwrite_sampling >>

\* the exporter GetExporter creates
NewExporter ==
  [info |-> [id |-> 0], input_translation_table |-> << >>, current_table |-> NullPtr,
   sampler |-> << >>, samplerOption |-> << >>, SysUpOption |-> NoTag,
   SysUpTime |-> MsecValue(<< >>)]

\* the flow source before its first packet; exporter_data holds the exporters
\* other than the one the variable exporter holds
NewFlowSource == [exporter_data |-> << >>, extension_map_list |-> {}]

\* GetExporter(fs, ipfix_header): the exporter of the observation domain of
\* the header, created if the list has none, and the other exporters
GetExporter(current, others, domain) ==
  IF current.info.id = domain THEN [exporter |-> current, exporter_data |-> others]
  ELSE IF \E k \in 1..Len(others) : others[k].info.id = domain
  THEN LET k == CHOOSE j \in 1..Len(others) : others[j].info.id = domain
       IN  [exporter |-> others[k], exporter_data |-> [others EXCEPT ![k] = current]]
  ELSE [exporter |-> [NewExporter EXCEPT !.info.id = domain],
        exporter_data |-> Append(others, current)]

\* no entry for the exporter yet; GetExporter creates it with zeroed counters
NewStat ==
  [known |-> FALSE, packets |-> 0, PacketSequence |-> 0, TemplateRecords |-> 0,
   DataRecords |-> 0, sequence_failure |-> 0]

\* two configurations of extension_descriptor[].enabled: the interface and AS
\* number extensions only, and every extension
DefaultExtensions == 0..EX_AS_4
AllExtensions == 0..LastExtensionIndex

NoFlowset == [op |-> "none"]

\* The actions TemplateRecord .. OptionTemplateSet are the steps of Process_IPFIX
\* inside a packet, one set or one template record at a time; the header of the
\* packet and the counters of stat are the part of Packet, further down, which
\* processes a packet as a whole.

\* Process_IPFIX, case IPFIX_TEMPLATE_FLOWSET_ID: the next template record of
\* the Template Set being walked, or the first record of a new set
TemplateRecord(rec, callocNull) ==
  LET path == IF template_path = "idle" THEN TemplatePath(rec) ELSE template_path
  IN  \E r \in { template_record(exporter, rec, path, extension_enabled, sa_family,
                                  callocNull) } :
      /\ exporter' = r.ex
      /\ fs' = [fs EXCEPT !.extension_map_list = MapCalls(@, exporter.info.id, rec.id, r.did)]
      /\ extension_enabled' = r.enabled
      /\ template_path' = r.path
      /\ withdrawn' = IF path = "skip" THEN withdrawn
                      ELSE IF rec.fields = << >>
                      THEN withdrawn \cup ({rec.id} \cap TemplateIds)
                      ELSE IF r.did.accepted THEN withdrawn \ {rec.id}
                      ELSE withdrawn
      /\ last' = [op |-> "template", handled |-> path, id |-> rec.id,
                  fields |-> rec.fields, installed |-> Installed(exporter, rec.id),
                  identical |-> IF Installed(exporter, rec.id)
                                THEN TableOf(exporter, rec.id).fields = rec.fields
                                ELSE FALSE,
                  accepted |-> r.did.accepted,
                  AddExtensionMap |-> r.did.AddExtensionMap,
                  RemoveExtensionMap |-> r.did.RemoveExtensionMap,
                  reinit |-> r.did.reinit]
      /\ UNCHANGED << config, wire, stat >>

\* the Template Set ends
EndTemplateSet ==
  /\ template_path # "idle"
  /\ template_path' = "idle"
  /\ last' = [op |-> "end_of_set"]
  /\ UNCHANGED << extension_enabled, config, exporter, fs, wire, withdrawn, stat >>

\* the byte offset at which a template record declares its k-th field
RECURSIVE DeclaredOffset(_, _)
DeclaredOffset(fields, k) ==
  IF k <= 1 THEN 0 ELSE DeclaredOffset(fields, k - 1) + fields[k - 1].length

\* a data payload of n zero bytes
ZeroBytes(n) == [ k \in 1..n |-> 0 ]

\* Process_IPFIX, default case: a set with id >= IPFIX_MIN_RECORD_FLOWSET_ID
\* and payload bytes in a packet with this ExportTime; pad is the byte the
\* receive buffer holds behind it. The output buffer has room for every record.
DataSet(id, ExportTime, bytes, pad) ==
  LET g == GetTranslationTable(exporter, id)
  IN  /\ template_path = "idle"
      /\ IF g.table.kind # "NULL"
         THEN \E d \in { Process_ipfix_data(g.ex, g.table, ExportTime, bytes,
                                             Len(bytes) + 1, pad,
                                             default_sampling, overwrite_sampling) } :
                  /\ exporter' = d.ex
                  /\ last' = [op |-> "data", id |-> id, sampling_rate |-> d.sampling_rate,
                              emitted |-> d.emitted, processed |-> d.processed,
                              records |-> d.records, size_left |-> Len(bytes),
                              read_end |-> d.read_end, bytes |-> bytes]
         ELSE IF HasOptionTable(g.ex, id)
         THEN \E r \in { option_data(g.ex, id, bytes) } :
                /\ exporter' = r.ex
                /\ last' = [op |-> "option_data", id |-> id, flushed |-> r.flushed]
         ELSE /\ exporter' = g.ex
              /\ last' = [op |-> "unknown_data", id |-> id, emitted |-> 0]
      /\ UNCHANGED << extension_enabled, config, fs, template_path, wire, withdrawn, stat >>

\* Process_IPFIX, case IPFIX_OPTIONS_FLOWSET_ID
OptionTemplateSet(ot) ==
  /\ template_path = "idle"
  /\ exporter' = Process_ipfix_option_templates(exporter, ot, 10 + FieldBytes(ot.fields))
  /\ last' = [op |-> "option_template", id |-> ot.tableID]
  /\ UNCHANGED << extension_enabled, config, fs, template_path, wire, withdrawn, stat >>

\* ------------------------------------------------------------------------
\* Sending one template record, field specifier by field specifier
\* ------------------------------------------------------------------------
MaxFields == 3

Field(type, length) == [type |-> type, length |-> length, enterprise |-> 0]
EnterpriseField(type, length, enterprise) ==
  [type |-> type, length |-> length, enterprise |-> enterprise]

\* element 210 (paddingOctets) is not in ipfix_element_map
PaddingField(length) == Field(210, length)

\* the field specifiers an exporter may declare at any place of a record
WireFields ==
  { Field(IPFIX_octetDeltaCount, 4), Field(IPFIX_octetDeltaCount, 8),
    Field(IPFIX_ingressInterface, 2), Field(IPFIX_egressInterface, 4),
    Field(IPFIX_SourceIPv4Address, 4), Field(IPFIX_vlanId, 2),
    PaddingField(3), PaddingField(DYN_FIELD_LENGTH) }

\* every (element, length) row of ipfix_element_map, and enterprise fields
RegistryFields == { Field(RowId(i), RowLength(i)) : i \in 1..NumRows }
EnterpriseFields ==
  { EnterpriseField(IPFIX_octetDeltaCount, 8, IPFIX_ReverseInformationElement),
    EnterpriseField(IPFIX_packetDeltaCount, 4, IPFIX_ReverseInformationElement),
    EnterpriseField(IPFIX_octetTotalCount, 8, IPFIX_ReverseInformationElement),
    EnterpriseField(IPFIX_octetDeltaCount, 4, 9) }

\* the first field of a record may be any of them
FirstFields == RegistryFields \cup EnterpriseFields \cup WireFields

InitConfig ==
  /\ extension_enabled \in { DefaultExtensions, AllExtensions }
  /\ sa_family \in { "INET", "INET6" }

InitCompile ==
  /\ InitConfig
  /\ default_sampling = 1
  /\ overwrite_sampling = 0
  /\ exporter = NewExporter
  /\ fs = NewFlowSource
  /\ template_path = "idle"
  /\ wire = << >>
  /\ withdrawn = {}
  /\ stat = NewStat
  /\ last = NoFlowset

\* the exporter declares one more field of the template record
DeclareField(f) ==
  /\ last = NoFlowset
  /\ Len(wire) < MaxFields
  /\ wire' = Append(wire, f)
  /\ UNCHANGED << extension_enabled, config, exporter, fs, template_path, withdrawn, stat, last >>

\* the template record arrives as the first record of a Template Set
SendTemplate ==
  /\ last = NoFlowset
  /\ wire # << >>
  /\ TemplateRecord([id |-> FirstTemplateId, fields |-> wire], FALSE)

NextCompile ==
  \/ \E f \in (IF wire = << >> THEN FirstFields ELSE WireFields) : DeclareField(f)
  \/ SendTemplate

SpecCompile == InitCompile /\ [][NextCompile]_vars

\* ------------------------------------------------------------------------
\* An exporter sending Template Sets and Data Sets for a few template ids
\* ------------------------------------------------------------------------
\* the template body the exporter uses for its ids
AddressShape == << Field(IPFIX_SourceIPv4Address, 4), Field(IPFIX_octetDeltaCount, 4) >>

\* the template records the exporter sends: adds and withdraws of its ids,
\* and the withdraw of all templates
TemplateRecords ==
  { [id |-> i, fields |-> f] : i \in TemplateIds, f \in { << >>, AddressShape } }
  \cup { [id |-> IPFIX_TEMPLATE_FLOWSET_ID, fields |-> << >>] }

\* one data record of AddressShape
DataPayload == ZeroBytes(DeclaredOffset(AddressShape, Len(AddressShape) + 1))

\* the default configuration: -T unset, IPv4 socket
Init ==
  /\ extension_enabled = DefaultExtensions
  /\ sa_family = "INET"
  /\ default_sampling = 1
  /\ overwrite_sampling = 0
  /\ exporter = NewExporter
  /\ fs = NewFlowSource
  /\ template_path = "idle"
  /\ wire = << >>
  /\ withdrawn = {}
  /\ stat = NewStat
  /\ last = NoFlowset

Next ==
  \/ \E rec \in TemplateRecords, callocNull \in BOOLEAN : TemplateRecord(rec, callocNull)
  \/ EndTemplateSet
  \/ \E id \in TemplateIds : DataSet(id, 0, DataPayload, 0)

Spec == Init /\ [][Next]_vars

\* ------------------------------------------------------------------------
\* An exporter that sends one template and then sends it again, unchanged or
\* with one field specifier removed
\* ------------------------------------------------------------------------
\* the field specifiers of the template: common record elements, elements of
\* the interface, AS and VLAN extensions, and an element not in the map
RefreshFields ==
  { Field(IPFIX_SourceIPv4Address, 4), Field(IPFIX_octetDeltaCount, 4),
    Field(IPFIX_ingressInterface, 2), Field(IPFIX_bgpSourceAsNumber, 4),
    Field(IPFIX_vlanId, 2), PaddingField(3) }

\* the template record the table of FirstTemplateId was last compiled from
InstalledFields == TableOf(exporter, FirstTemplateId).fields

\* the template record arrives: the declared one, or the installed one again
Resend ==
  /\ wire # << >>
  /\ TemplateRecord([id |-> FirstTemplateId,
                     fields |-> IF Installed(exporter, FirstTemplateId)
                                THEN InstalledFields ELSE wire], FALSE)

\* the installed template arrives without its k-th field specifier
ResendWithout(k) ==
  /\ Installed(exporter, FirstTemplateId)
  /\ Len(InstalledFields) >= 2
  /\ k \in 1..Len(InstalledFields)
  /\ TemplateRecord([id |-> FirstTemplateId, fields |-> RemoveAt(InstalledFields, k)],
                    FALSE)

NextRefresh ==
  \/ \E f \in RefreshFields : DeclareField(f)
  \/ Resend
  \/ \E k \in 1..MaxFields : ResendWithout(k)

SpecRefresh == InitCompile /\ [][NextRefresh]_vars

\* ------------------------------------------------------------------------
\* An exporter that announces samplers in option sets and sends data sets
\* ------------------------------------------------------------------------
\* the ids of the option templates: standard sampling and a sampler
StdSamplingTable == FirstTemplateId + 1
SamplerTable == FirstTemplateId + 2

\* scope field (4 bytes), then the sampling elements
StdSamplingTemplate ==
  [tableID |-> StdSamplingTable, scope_field_count |-> 1,
   fields |-> << Field(IPFIX_ingressInterface, 4), Field(IPFIX_samplingInterval, 4),
                 Field(IPFIX_samplingAlgorithm, 1) >>]
SamplerTemplate ==
  [tableID |-> SamplerTable, scope_field_count |-> 1,
   fields |-> << Field(IPFIX_ingressInterface, 4), Field(IPFIX_selectorId, 4),
                 Field(IPFIX_selectorAlgorithm, 1),
                 Field(IPFIX_samplingPacketInterval, 4) >>]

\* option data records: the sampling intervals and sampler ids announced
Intervals == { << 0, 0, 0, 0 >>, << 0, 0, 0, 1 >>, << 0, 0, 0, 100 >> }
SamplerIds == { << 0, 0, 0, 1 >>, << 255, 255, 255, 255 >> }
StdSamplingData == { ZeroBytes(4) \o i \o << 1 >> : i \in Intervals }
SamplerData == { ZeroBytes(4) \o id \o << 2 >> \o i : id \in SamplerIds, i \in Intervals }

\* one data record of AddressShape: 10.0.0.1, octetDeltaCount 50
CounterPayload == << 10, 0, 0, 1, 0, 0, 0, 50 >>

\* Init_IPFIX(verbose, sampling, overwrite)
InitSampling ==
  /\ extension_enabled = DefaultExtensions
  /\ sa_family = "INET"
  /\ default_sampling \in {0, 1, 2}
  /\ overwrite_sampling \in {0, 3}
  /\ exporter = NewExporter
  /\ fs = NewFlowSource
  /\ template_path = "idle"
  /\ wire = << >>
  /\ withdrawn = {}
  /\ stat = NewStat
  /\ last = NoFlowset

NextSampling ==
  \/ TemplateRecord([id |-> FirstTemplateId, fields |-> AddressShape], FALSE)
  \/ EndTemplateSet
  \/ \E ot \in { StdSamplingTemplate, SamplerTemplate } : OptionTemplateSet(ot)
  \/ \E bytes \in StdSamplingData : DataSet(StdSamplingTable, 0, bytes, 0)
  \/ \E bytes \in SamplerData : DataSet(SamplerTable, 0, bytes, 0)
  \/ DataSet(FirstTemplateId, 0, CounterPayload, 0)

SpecSampling == InitSampling /\ [][NextSampling]_vars

\* ------------------------------------------------------------------------
\* An exporter that sends templates with time stamps, ports and ICMP type/code
\* and data sets of their records, complete and cut short
\* ------------------------------------------------------------------------
\* a value as the 2 or 4 bytes it has on the wire
U16Bytes(n) == << n \div 256, n % 256 >>
U32Bytes(n) == << n \div 16777216, (n \div 65536) % 256, (n \div 256) % 256, n % 256 >>

SecondsTable == FirstTemplateId
MilliTable == FirstTemplateId + 1
SysUpTable == FirstTemplateId + 2

\* the template of each id
RecordShape(id) ==
  CASE id = SecondsTable ->
         << Field(IPFIX_flowStartSeconds, 4), Field(IPFIX_flowEndSeconds, 4),
            Field(IPFIX_protocolIdentifier, 1), Field(IPFIX_SourceTransportPort, 2),
            Field(IPFIX_DestinationTransportPort, 2), Field(IPFIX_icmpTypeCodeIPv4, 2) >>
    [] id = MilliTable ->
         << Field(IPFIX_flowStartMilliseconds, 8), Field(IPFIX_flowEndMilliseconds, 8),
            Field(IPFIX_flowDurationMilliseconds, 4) >>
    [] id = SysUpTable ->
         << Field(IPFIX_flowStartSysUpTime, 4), Field(IPFIX_flowEndSysUpTime, 4),
            Field(IPFIX_SystemInitTimeMiliseconds, 8) >>

\* epoch seconds around 1996-01-01 (820454400), and the same in milliseconds
EpochSeconds == { 0, 820454399, 820454400 }
EpochMillis ==
  { << 0, 0, 0, 0, 0, 0, 1, 244 >>, << 0, 0, 0, 191, 6, 228, 159, 255 >>,
    << 0, 0, 0, 191, 6, 228, 160, 0 >> }

\* the data records of each template
RecordsOf(id) ==
  CASE id = SecondsTable ->
         { U32Bytes(first) \o U32Bytes(end) \o << prot >> \o U16Bytes(ports[1])
             \o U16Bytes(ports[2]) \o U16Bytes(icmp) :
           first \in EpochSeconds \ {0}, end \in EpochSeconds,
           prot \in {1, 6, 58}, ports \in { << 1024, 80 >> }, icmp \in {0, 2048} }
    [] id = MilliTable ->
         { first \o end \o U32Bytes(duration) :
           first \in EpochMillis, end \in EpochMillis, duration \in {0, 1500} }
    [] id = SysUpTable ->
         { U32Bytes(first) \o U32Bytes(end) \o init :
           first \in {1}, end \in {0, 2000}, init \in EpochMillis }

\* data sets cut short: one record of the template followed by the first n
\* bytes of another one
CutRecords(id) ==
  { r \o SubSeq(r, 1, n) : r \in { CHOOSE x \in RecordsOf(id) : TRUE },
                           n \in { 4, Len(RecordShape(id)) + 2,
                                   DeclaredOffset(RecordShape(id),
                                                  Len(RecordShape(id)) + 1) - 1 } }

NextRecord ==
  \/ \E id \in SecondsTable..SysUpTable :
       TemplateRecord([id |-> id, fields |-> RecordShape(id)], FALSE)
  \/ EndTemplateSet
  \/ \E id \in SecondsTable..SysUpTable, ExportTime \in { 820454401 } :
       \/ \E bytes \in RecordsOf(id) : DataSet(id, ExportTime, bytes, 0)
       \/ \E bytes \in CutRecords(id), pad \in {0, 1} : DataSet(id, ExportTime, bytes, pad)

SpecRecord == Init /\ [][NextRecord]_vars

\* the same exporter sending Data Sets that hold one record twice
RepeatedRecords(id) ==
  CASE id = SecondsTable ->
         { U32Bytes(820454400) \o U32Bytes(end) \o << prot >> \o U16Bytes(1024)
             \o U16Bytes(80) \o U16Bytes(icmp) :
           end \in { 0, 820454400 }, prot \in {1, 6}, icmp \in {0, 2048} }
    [] id = MilliTable ->
         { << 0, 0, 0, 191, 6, 228, 160, 0 >> \o end \o U32Bytes(duration) :
           end \in { ZeroBytes(8), << 0, 0, 0, 191, 6, 228, 160, 0 >> },
           duration \in {0, 1500} }
    [] id = SysUpTable ->
         { U32Bytes(1) \o U32Bytes(end) \o init :
           end \in {0, 2000}, init \in EpochMillis }

NextTwice ==
  \/ \E id \in SecondsTable..SysUpTable :
       TemplateRecord([id |-> id, fields |-> RecordShape(id)], FALSE)
  \/ EndTemplateSet
  \/ \E id \in SecondsTable..SysUpTable :
       \E r \in RepeatedRecords(id) : DataSet(id, 820454401, r \o r, 0)

SpecTwice == Init /\ [][NextTwice]_vars

\* ------------------------------------------------------------------------
\* Process_IPFIX: one packet of the exporter. A packet is
\* [in_buff_cnt, space, version, Sequence, ExportTime, flowsets]: the bytes
\* received, the number of records the output buffer has room for while the
\* packet is processed (as many as the packet has bytes: room for all), the
\* fields of the header and the sets behind it, in order. A set is
\* [id, length, body]: the flowset header and what the bytes behind it hold,
\* the template records of a Template Set, the record of an Options Template
\* Set, the payload of a Data Set.
\* ------------------------------------------------------------------------
IPFIX_HEADER_LENGTH == 16
IPFIX_OPTIONS_FLOWSET_ID == 3
MaxPackets == 2

\* the sequence check. PacketSequence and Sequence are uint32_t; the model
\* keeps both far below the wrap.
SequenceCheck_noFirstSync(st, Sequence) ==
  IF Sequence # st.PacketSequence
  THEN [st EXCEPT !.sequence_failure = @ + 1, !.PacketSequence = Sequence]
  ELSE st
SequenceCheck(st, Sequence) ==
  IF Sequence # st.PacketSequence
  THEN [st EXCEPT !.sequence_failure = IF st.DataRecords # 0 THEN @ + 1 ELSE @,
                  !.PacketSequence = Sequence]
  ELSE st

\* the flowset loop goes no further: flowset_length is 0 (return), at most 4
\* or more than size_left (size_left = 0)
FlowsetStops_noUpperCheck(flowset_length, size_left) == flowset_length <= 4
FlowsetStops_below4(flowset_length, size_left) ==
  flowset_length < 4 \/ flowset_length > size_left
FlowsetStops_upperOnly(flowset_length, size_left) == flowset_length > size_left
FlowsetStops(flowset_length, size_left) ==
  flowset_length = 0 \/ flowset_length <= 4 \/ flowset_length > size_left

\* Process_ipfix_template_add: the field specifiers of a record fit in the
\* size_left bytes of the set that begin at its header. The code tests
\* 4 * count behind the header, and 4 more at each enterprise number.
RecordFits_noEnterprise(size_left, fields) == size_left - 4 >= 4 * Len(fields)
RecordFits(size_left, fields) == size_left - 4 >= FieldBytes(fields)

\* Process_ipfix_templates over the template records of a set:
\* s = [ex, enabled, maps, withdrawn, path, size_left], maps the extension map
\* list of the flow source, size_left the bytes of the set not yet read. A record of the add path whose field specifiers need more
\* bytes than are left ends the function (the check of 4 * count, and the
\* check at each enterprise number); the withdraw path reads 4 bytes a step.
RECURSIVE TemplateLoop(_, _, _)
TemplateLoop(s, recs, fam) ==
  IF recs = << >> \/ s.size_left < 4 THEN s
  ELSE IF s.path = "withdraw"
  THEN LET words == RecordWords(Head(recs))
           n == IF 4 * Len(words) <= s.size_left THEN Len(words) ELSE s.size_left \div 4
       IN  Bind(withdraw_words([ex |-> s.ex, removed |-> {}, reinit |-> FALSE],
                               SubSeq(words, 1, n)),
                LAMBDA w :
                  TemplateLoop(
                    [s EXCEPT !.ex = w.ex,
                              !.maps = MapCalls(@, s.ex.info.id, Head(recs).id,
                                                [AddExtensionMap |-> FALSE,
                                                 RemoveExtensionMap |-> FALSE,
                                                 removed |-> w.removed,
                                                 reinit |-> w.reinit]),
                              !.withdrawn = IF Head(recs).fields = << >>
                                            THEN @ \cup ({Head(recs).id} \cap TemplateIds)
                                            ELSE @,
                              !.size_left = @ - 4 * n],
                    Tail(recs), fam))
  ELSE IF s.path = "add" /\ ~RecordFits(s.size_left, Head(recs).fields) THEN s
  ELSE Bind(template_record(s.ex, Head(recs), s.path, s.enabled, fam, FALSE),
            LAMBDA r :
              TemplateLoop(
                [ex |-> r.ex, enabled |-> r.enabled, path |-> r.path,
                 maps |-> MapCalls(s.maps, s.ex.info.id, Head(recs).id, r.did),
                 withdrawn |-> IF s.path = "skip" THEN s.withdrawn
                               ELSE IF r.did.accepted THEN s.withdrawn \ {Head(recs).id}
                               ELSE s.withdrawn,
                 size_left |-> s.size_left - 4 - FieldBytes(Head(recs).fields)],
                Tail(recs), fam))

\* the switch on flowset_id: s = [ex, enabled, maps, withdrawn, st, space, records,
\* dispatched, processed, emitted], st the counters, space the records
\* CheckBufferSpace still finds room for, records the output buffer behind the
\* records that were in it before the packet, the rest ghosts: the sets that
\* reached the switch, the data records begun and those written
Dispatch(s, f, ExportTime, fam, default, overwrite) ==
  CASE f.id = IPFIX_TEMPLATE_FLOWSET_ID ->
         Bind(TemplateLoop([ex |-> s.ex, enabled |-> s.enabled, maps |-> s.maps,
                            withdrawn |-> s.withdrawn, size_left |-> f.length - 4,
                            path |-> TemplatePath(Head(f.body))], f.body, fam),
              LAMBDA r : [s EXCEPT !.ex = r.ex, !.enabled = r.enabled,
                                   !.maps = r.maps, !.withdrawn = r.withdrawn,
                                   !.st.TemplateRecords = @ + 1])
    [] f.id = IPFIX_OPTIONS_FLOWSET_ID ->
         [s EXCEPT !.ex = Process_ipfix_option_templates(s.ex, f.body, f.length),
                   !.st.TemplateRecords = @ + 1]
    [] f.id < IPFIX_MIN_RECORD_FLOWSET_ID /\ f.id # IPFIX_TEMPLATE_FLOWSET_ID
       /\ f.id # IPFIX_OPTIONS_FLOWSET_ID -> s
    [] OTHER ->
         Bind(GetTranslationTable(s.ex, f.id), LAMBDA g :
           IF g.table.kind # "NULL"
           THEN Bind(Process_ipfix_data(g.ex, g.table, ExportTime, f.body,
                                        s.space, 0, default, overwrite),
                     LAMBDA d : [s EXCEPT !.ex = d.ex,
                                          !.space = @ - d.processed,
                                          !.records = @ \o d.records,
                                          !.st.PacketSequence = @ + d.processed,
                                          !.st.DataRecords = @ + 1,
                                          !.processed = @ + d.processed,
                                          !.emitted = @ + d.emitted])
           ELSE IF HasOptionTable(g.ex, f.id)
           THEN [s EXCEPT !.ex = Process_ipfix_option_data(g.ex, f.id, f.body)]
           ELSE [s EXCEPT !.ex = g.ex])

\* the loop over the sets of a packet, from its k-th set on
RECURSIVE FlowsetLoop(_, _, _, _, _, _, _)
FlowsetLoop(s, p, k, size_left, fam, default, overwrite) ==
  IF size_left = 0 \/ size_left < 4 \/ k > Len(p.flowsets) THEN s
  ELSE IF FlowsetStops(p.flowsets[k].length, size_left) THEN s
  ELSE Bind(Dispatch(s, p.flowsets[k], p.ExportTime, fam, default, overwrite),
            LAMBDA s2 :
              FlowsetLoop([s2 EXCEPT !.dispatched = @ + 1], p, k + 1,
                          size_left - p.flowsets[k].length, fam, default, overwrite))

\* Process_IPFIX(in_buff, in_buff_cnt, fs)
Process_IPFIX(s, p, fam, default, overwrite) ==
  IF p.in_buff_cnt < IPFIX_HEADER_LENGTH THEN s
  ELSE FlowsetLoop(
         [s EXCEPT !.st = SequenceCheck([s.st EXCEPT !.known = TRUE, !.packets = @ + 1],
                                        p.Sequence)],
         p, 1, p.in_buff_cnt - IPFIX_HEADER_LENGTH, fam, default, overwrite)

\* the exporter sends packet p
Packet(p) ==
  /\ template_path = "idle"
  /\ stat.packets < MaxPackets
  /\ \E r \in { Process_IPFIX([ex |-> exporter, enabled |-> extension_enabled,
                               maps |-> fs.extension_map_list,
                               withdrawn |-> withdrawn, st |-> stat,
                               space |-> p.space, records |-> << >>,
                               dispatched |-> 0, processed |-> 0, emitted |-> 0],
                              p, sa_family, default_sampling, overwrite_sampling) } :
       /\ exporter' = r.ex
       /\ fs' = [fs EXCEPT !.extension_map_list = r.maps]
       /\ extension_enabled' = r.enabled
       /\ withdrawn' = r.withdrawn
       /\ stat' = r.st
       /\ last' = [op |-> "packet", packet |-> p, dispatched |-> r.dispatched,
                   processed |-> r.processed, emitted |-> r.emitted,
                   records |-> r.records]
  /\ UNCHANGED << config, template_path, wire >>

\* the bytes of the template records of a Template Set
RECURSIVE RecordsLength(_)
RecordsLength(recs) ==
  IF recs = << >> THEN 0
  ELSE 4 + FieldBytes(Head(recs).fields) + RecordsLength(Tail(recs))

\* the bytes of a set, flowset header included
SetLength(id, body) ==
  4 + CASE id = IPFIX_TEMPLATE_FLOWSET_ID -> RecordsLength(body)
        [] id = IPFIX_OPTIONS_FLOWSET_ID -> 6 + FieldBytes(body.fields)
        [] OTHER -> Len(body)

\* the option template that announces systemInitTimeMilliseconds, and the
\* option data record that sets it to 5000
SysUpOptionTable == FirstTemplateId + 3
SysUpTemplate ==
  [tableID |-> SysUpOptionTable, scope_field_count |-> 1,
   fields |-> << Field(IPFIX_ingressInterface, 4),
                 Field(IPFIX_SystemInitTimeMiliseconds, 8) >>]
SysUpData == ZeroBytes(4) \o << 0, 0, 0, 0, 0, 0, 19, 136 >>

\* the id of a Data Set no template and no option template has announced, and
\* its payload
UnknownTable == FirstTemplateId + 4
UnknownData == << 10, 0, 0, 1, 0, 0, 0, 0, 0, 0, 0, 7 >>

\* the bodies of the sets the exporter sends
SetBodies ==
  { << IPFIX_TEMPLATE_FLOWSET_ID, << [id |-> FirstTemplateId, fields |-> AddressShape] >> >>,
    << IPFIX_OPTIONS_FLOWSET_ID, SysUpTemplate >>,
    << FirstTemplateId, CounterPayload >>,
    << SysUpOptionTable, SysUpData >>,
    << UnknownTable, UnknownData >> }

\* well-formed sets, and sets whose header declares a wrong length
GoodSets == { [id |-> b[1], body |-> b[2], length |-> SetLength(b[1], b[2])] : b \in SetBodies }
BadSets ==
  { [id |-> b[1], body |-> b[2], length |-> l] :
      b \in { c \in SetBodies : c[1] <= FirstTemplateId }, l \in { 0, 3, 4, 1000 } }

\* the packets: one set; two sets, at most one of them with a wrong length; a
\* packet cut inside its header
Packets ==
  { [in_buff_cnt |-> IPFIX_HEADER_LENGTH + SetLength(f.id, f.body), version |-> 10,
     space |-> IPFIX_HEADER_LENGTH + SetLength(f.id, f.body), Sequence |-> q, ExportTime |-> 0, flowsets |-> << f >>] :
      f \in GoodSets \cup BadSets, q \in {0, 1} }
  \cup
  { [in_buff_cnt |-> IPFIX_HEADER_LENGTH + SetLength(fg[1].id, fg[1].body)
                       + SetLength(fg[2].id, fg[2].body),
     space |-> IPFIX_HEADER_LENGTH + SetLength(fg[1].id, fg[1].body)
                 + SetLength(fg[2].id, fg[2].body),
     version |-> 10, Sequence |-> 0, ExportTime |-> 0, flowsets |-> fg] :
      fg \in (GoodSets \X GoodSets) \cup (GoodSets \X BadSets)
             \cup (BadSets \X { g \in GoodSets : g.id = IPFIX_TEMPLATE_FLOWSET_ID }) }
  \cup
  { [in_buff_cnt |-> 8, space |-> 8, version |-> 10, Sequence |-> 0, ExportTime |-> 0,
     flowsets |-> << >>] }

NextPacket == \E p \in Packets : Packet(p)

SpecPacket == Init /\ [][NextPacket]_vars

\* the same exporter, and packets of one set with version 9 in the header
NextVersion ==
  \E p \in Packets \cup { [q EXCEPT !.version = 9] :
                           q \in { r \in Packets : Len(r.flowsets) = 1 } } : Packet(p)

SpecVersion == Init /\ [][NextVersion]_vars

\* ------------------------------------------------------------------------
\* An exporter whose sets end inside a record, whose option templates are
\* rejected, and whose packets arrive while the output buffer is full
\* ------------------------------------------------------------------------
SecondTable == FirstTemplateId + 1
PortShape ==
  << Field(IPFIX_SourceTransportPort, 2), Field(IPFIX_DestinationTransportPort, 2) >>
ReverseShape ==
  << Field(IPFIX_packetDeltaCount, 4),
     EnterpriseField(IPFIX_octetDeltaCount, 4, IPFIX_ReverseInformationElement) >>

\* Template Sets: complete, and with a header that ends the set 4 bytes early,
\* inside the field specifiers of the last record
TemplateBodies ==
  { << [id |-> FirstTemplateId, fields |-> AddressShape],
       [id |-> SecondTable, fields |-> PortShape] >>,
    << [id |-> FirstTemplateId, fields |-> AddressShape],
       [id |-> SecondTable, fields |-> ReverseShape] >>,
    << [id |-> SecondTable, fields |-> PortShape] >>,
    << [id |-> SecondTable, fields |-> ReverseShape] >> }
FullTemplateSets ==
  { [id |-> IPFIX_TEMPLATE_FLOWSET_ID, body |-> b,
     length |-> SetLength(IPFIX_TEMPLATE_FLOWSET_ID, b)] : b \in TemplateBodies }
CutTemplateSets ==
  { [id |-> IPFIX_TEMPLATE_FLOWSET_ID, body |-> b,
     length |-> SetLength(IPFIX_TEMPLATE_FLOWSET_ID, b) - 4] : b \in TemplateBodies }

\* option templates the code rejects: no scope field; a set that ends inside
\* the field specifiers; a set that ends before the enterprise number of the
\* last field, behind a systemInitTimeMilliseconds or a samplingInterval field
NoScopeTemplate == [StdSamplingTemplate EXCEPT !.scope_field_count = 0]
LateSysUpTemplate ==
  [tableID |-> SysUpOptionTable, scope_field_count |-> 1,
   fields |-> << Field(IPFIX_ingressInterface, 8),
                 Field(IPFIX_SystemInitTimeMiliseconds, 8),
                 EnterpriseField(IPFIX_octetDeltaCount, 4, 9) >>]
LateSamplingTemplate ==
  [tableID |-> StdSamplingTable, scope_field_count |-> 1,
   fields |-> << Field(IPFIX_ingressInterface, 4), Field(IPFIX_samplingInterval, 4),
                 Field(IPFIX_samplingAlgorithm, 1),
                 EnterpriseField(IPFIX_octetDeltaCount, 4, 9) >>]
OptionSet(ot, length) == [id |-> IPFIX_OPTIONS_FLOWSET_ID, body |-> ot, length |-> length]
FullOptionSets ==
  { OptionSet(ot, SetLength(IPFIX_OPTIONS_FLOWSET_ID, ot)) :
      ot \in { SysUpTemplate, StdSamplingTemplate } }
RejectedOptionSets ==
  { OptionSet(NoScopeTemplate, SetLength(IPFIX_OPTIONS_FLOWSET_ID, NoScopeTemplate)) }
  \cup
  { OptionSet(ot, SetLength(IPFIX_OPTIONS_FLOWSET_ID, ot) - 4) :
      ot \in { StdSamplingTemplate, LateSysUpTemplate, LateSamplingTemplate } }

\* a Data Set of two records of AddressShape
TwoRecords == << 10, 0, 0, 1, 0, 0, 0, 0 >> \o << 0, 0, 0, 0, 0, 0, 0, 60 >>
CounterSet == [id |-> FirstTemplateId, body |-> TwoRecords,
               length |-> SetLength(FirstTemplateId, TwoRecords)]

\* the bytes of the sets of a packet
RECURSIVE LengthOf(_)
LengthOf(sets) == IF sets = << >> THEN 0 ELSE Head(sets).length + LengthOf(Tail(sets))

\* the packet of these sets, received while the output buffer has room for
\* space records
PacketOf(sets, space) ==
  [in_buff_cnt |-> IPFIX_HEADER_LENGTH + LengthOf(sets), space |-> space, version |-> 10,
   Sequence |-> 0, ExportTime |-> 0, flowsets |-> sets]

\* room for every record of a packet of these sets
Room(sets) == IPFIX_HEADER_LENGTH + LengthOf(sets)

\* the packets: a set alone; a Template Set or an Options Template Set and the
\* Data Set behind it; the Data Set with room for no, one or all records, alone
\* and before a Template Set or an Options Template Set
CutPackets ==
  { PacketOf(<< f >>, Room(<< f >>)) :
      f \in FullTemplateSets \cup CutTemplateSets \cup FullOptionSets \cup RejectedOptionSets }
  \cup
  { PacketOf(<< f, CounterSet >>, Room(<< f, CounterSet >>)) :
      f \in CutTemplateSets \cup RejectedOptionSets }
  \cup
  { PacketOf(<< CounterSet >>, space) : space \in { 0, 1, Room(<< CounterSet >>) } }
  \cup
  { PacketOf(<< CounterSet, f >>, space) :
      f \in { [id |-> IPFIX_TEMPLATE_FLOWSET_ID,
                body |-> << [id |-> SecondTable, fields |-> PortShape] >>,
                length |-> 4 + RecordsLength(<< [id |-> SecondTable, fields |-> PortShape] >>)],
               OptionSet(SysUpTemplate, SetLength(IPFIX_OPTIONS_FLOWSET_ID, SysUpTemplate)) },
      space \in { 0, 1 } }

NextCut == \E p \in CutPackets : Packet(p)

SpecCut == Init /\ [][NextCut]_vars

\* ------------------------------------------------------------------------
\* An exporter whose templates declare the time stamps of one or two time
\* bases, each template in a packet with a Data Set of one record of it
\* ------------------------------------------------------------------------
\* the start and end elements of the time bases, in the order of preference
\* of setup_translation_table, and what else a base reads
TimeBases ==
  << [start |-> IPFIX_flowStartDeltaMicroseconds, end |-> IPFIX_flowEndDeltaMicroseconds,
      more |-> {}],
     [start |-> IPFIX_flowStartMilliseconds, end |-> IPFIX_flowEndMilliseconds,
      more |-> { IPFIX_flowDurationMilliseconds }],
     [start |-> IPFIX_flowStartSysUpTime, end |-> IPFIX_flowEndSysUpTime,
      more |-> { IPFIX_SystemInitTimeMiliseconds }],
     [start |-> IPFIX_flowStartSeconds, end |-> IPFIX_flowEndSeconds, more |-> {}] >>

\* the field specifiers of the base, and the bytes the exporter sends for each
\* element: 820454400.000 .. 820454401.000 as microseconds before the export
\* time 820454401, as milliseconds, and as milliseconds after the system
\* init time 820454399.000; 820454500 .. 820454600 as seconds
BaseFields(n) ==
  CASE n = 1 -> << Field(IPFIX_flowStartDeltaMicroseconds, 4),
                   Field(IPFIX_flowEndDeltaMicroseconds, 4) >>
    [] n = 2 -> << Field(IPFIX_flowStartMilliseconds, 8),
                   Field(IPFIX_flowEndMilliseconds, 8) >>
    [] n = 3 -> << Field(IPFIX_flowStartSysUpTime, 4), Field(IPFIX_flowEndSysUpTime, 4),
                   Field(IPFIX_SystemInitTimeMiliseconds, 8) >>
    [] n = 4 -> << Field(IPFIX_flowStartSeconds, 4), Field(IPFIX_flowEndSeconds, 4) >>
TimeBytes(type) ==
  CASE type = IPFIX_flowStartDeltaMicroseconds -> U32Bytes(1000000)
    [] type = IPFIX_flowEndDeltaMicroseconds -> U32Bytes(0)
    [] type = IPFIX_flowStartMilliseconds -> << 0, 0, 0, 191, 6, 228, 160, 0 >>
    [] type = IPFIX_flowEndMilliseconds -> << 0, 0, 0, 191, 6, 228, 163, 232 >>
    [] type = IPFIX_flowStartSysUpTime -> U32Bytes(1000)
    [] type = IPFIX_flowEndSysUpTime -> U32Bytes(2000)
    [] type = IPFIX_SystemInitTimeMiliseconds -> << 0, 0, 0, 191, 6, 228, 156, 24 >>
    [] type = IPFIX_flowStartSeconds -> U32Bytes(820454500)
    [] type = IPFIX_flowEndSeconds -> U32Bytes(820454600)
    [] type = IPFIX_SourceIPv4Address -> << 10, 0, 0, 1 >>
    [] OTHER -> << 0, 0, 0, 50 >>

\* the templates: no time stamps; one base, before the address; two bases,
\* before and behind the address
TimeShapes ==
  { AddressShape }
  \cup { BaseFields(n) \o << Field(IPFIX_SourceIPv4Address, 4) >> : n \in 1..4 }
  \cup { BaseFields(bb[1]) \o BaseFields(bb[2]) \o << Field(IPFIX_SourceIPv4Address, 4) >> :
           bb \in { c \in (1..4) \X (1..4) : c[1] # c[2] /\ {c[1], c[2]} # {1, 3} } }
  \cup { << Field(IPFIX_SourceIPv4Address, 4) >> \o BaseFields(bb[1]) \o BaseFields(bb[2]) :
           bb \in { << 4, 2 >>, << 2, 1 >>, << 4, 3 >> } }

\* the record of a template
RECURSIVE RecordBytes(_)
RecordBytes(fields) ==
  IF fields = << >> THEN << >>
  ELSE TimeBytes(Head(fields).type) \o RecordBytes(Tail(fields))

TimePackets ==
  { [PacketOf(<< [id |-> IPFIX_TEMPLATE_FLOWSET_ID,
                  body |-> << [id |-> id, fields |-> shape] >>,
                  length |-> 8 + FieldBytes(shape)],
                 [id |-> id, body |-> RecordBytes(shape),
                  length |-> 4 + Len(RecordBytes(shape))] >>,
              Len(shape)) EXCEPT !.ExportTime = 820454401] :
      shape \in TimeShapes, id \in { FirstTemplateId, SecondTable } }

NextTimeBase == \E p \in TimePackets : Packet(p)

SpecTimeBase == Init /\ [][NextTimeBase]_vars

\* ------------------------------------------------------------------------
\* An exporter that announces its system init time in option data and sends
\* flow times relative to it
\* ------------------------------------------------------------------------
\* template FirstTemplateId has no systemInitTimeMilliseconds of its own,
\* template SecondTable has
UpTimeShape(id) ==
  IF id = FirstTemplateId
  THEN << Field(IPFIX_flowStartSysUpTime, 4), Field(IPFIX_flowEndSysUpTime, 4),
          Field(IPFIX_SourceIPv4Address, 4) >>
  ELSE << Field(IPFIX_flowStartSysUpTime, 4), Field(IPFIX_flowEndSysUpTime, 4),
          Field(IPFIX_SystemInitTimeMiliseconds, 8) >>

\* system init times in milliseconds: 1700000000000, 1700000000600,
\* 1600000000000
InitTimes ==
  { << 0, 0, 1, 139, 207, 229, 104, 0 >>, << 0, 0, 1, 139, 207, 229, 106, 88 >>,
    << 0, 0, 1, 116, 135, 110, 128, 0 >> }

\* records with start 5000 or 5500 and end 8000 or 0, sent once the
\* template is installed
UpTimeRecords(id) ==
  { U32Bytes(start) \o U32Bytes(end) \o rest :
      start \in { 5000, 5500 }, end \in { 0, 8000 },
      rest \in IF id = FirstTemplateId THEN { << 10, 0, 0, 1 >> }
               ELSE { ZeroBytes(8), << 0, 0, 1, 116, 135, 110, 128, 0 >> } }

NextSysUp ==
  \/ \E id \in { FirstTemplateId, SecondTable } :
       TemplateRecord([id |-> id, fields |-> UpTimeShape(id)], FALSE)
  \/ EndTemplateSet
  \/ OptionTemplateSet(SysUpTemplate)
  \/ \E init \in InitTimes : DataSet(SysUpOptionTable, 0, ZeroBytes(4) \o init, 0)
  \/ \E id \in { FirstTemplateId, SecondTable } :
       \E bytes \in UpTimeRecords(id) : Installed(exporter, id) /\ DataSet(id, 0, bytes, 0)

SpecSysUp == Init /\ [][NextSysUp]_vars

\* ------------------------------------------------------------------------
\* An exporter that refreshes its template with another time base, or without
\* the flow duration, between its data records
\* ------------------------------------------------------------------------
\* the compilations of template FirstTemplateId: sysUpTime-relative, absolute
\* seconds, absolute milliseconds with and without the duration
RebaseShapes ==
  { << Field(IPFIX_flowStartSysUpTime, 4), Field(IPFIX_flowEndSysUpTime, 4),
       Field(IPFIX_SourceIPv4Address, 4) >>,
    << Field(IPFIX_flowStartSeconds, 4), Field(IPFIX_flowEndSeconds, 4),
       Field(IPFIX_SourceIPv4Address, 4) >>,
    << Field(IPFIX_flowStartMilliseconds, 8), Field(IPFIX_flowEndMilliseconds, 8),
       Field(IPFIX_flowDurationMilliseconds, 4) >>,
    << Field(IPFIX_flowStartMilliseconds, 8), Field(IPFIX_flowEndMilliseconds, 8),
       Field(IPFIX_SourceIPv4Address, 4) >> }

\* what the exporter sends for an element: start 820454400.000 and end 0 as
\* milliseconds with a duration of 5000; start 5000 and end 8000 after the
\* system init time 820454399.000, which the exporter announces in option
\* data; 820454500 .. 820454600 as seconds
RebaseBytes(type) ==
  CASE type = IPFIX_flowEndMilliseconds -> { ZeroBytes(8), TimeBytes(type) }
    [] type = IPFIX_flowDurationMilliseconds -> { U32Bytes(5000) }
    [] type = IPFIX_flowStartSysUpTime -> { U32Bytes(5000) }
    [] type = IPFIX_flowEndSysUpTime -> { U32Bytes(8000) }
    [] OTHER -> { TimeBytes(type) }

\* the records of a template of three fields
RebaseRecords(fields) ==
  { a \o b \o c : a \in RebaseBytes(fields[1].type), b \in RebaseBytes(fields[2].type),
                  c \in RebaseBytes(fields[3].type) }

NextRebase ==
  \/ \E shape \in RebaseShapes :
       TemplateRecord([id |-> FirstTemplateId, fields |-> shape], FALSE)
  \/ EndTemplateSet
  \/ OptionTemplateSet(SysUpTemplate)
  \/ DataSet(SysUpOptionTable, 0,
             ZeroBytes(4) \o TimeBytes(IPFIX_SystemInitTimeMiliseconds), 0)
  \/ /\ Installed(exporter, FirstTemplateId)
     /\ \E bytes \in RebaseRecords(TableOf(exporter, FirstTemplateId).fields) :
          DataSet(FirstTemplateId, 0, bytes, 0)

SpecRebase == Init /\ [][NextRebase]_vars

\* ------------------------------------------------------------------------
\* Two exporters of one flow source: the packets of two observation domains
\* arrive interleaved, each with one set
\* ------------------------------------------------------------------------
Domains == { 0, 1 }

\* the template records of an exporter: template FirstTemplateId, its
\* withdraw, and the withdraw of all templates
SharedRecords ==
  { [id |-> FirstTemplateId, fields |-> AddressShape],
    [id |-> FirstTemplateId, fields |-> << >>],
    [id |-> IPFIX_TEMPLATE_FLOWSET_ID, fields |-> << >>] }

\* the next packet comes from the exporter of another observation domain
PacketFrom(domain) ==
  /\ template_path = "idle"
  /\ exporter.info.id # domain
  /\ \E g \in { GetExporter(exporter, fs.exporter_data, domain) } :
       /\ exporter' = g.exporter
       /\ fs' = [fs EXCEPT !.exporter_data = g.exporter_data]
  /\ last' = [op |-> "exporter", id |-> domain]
  /\ UNCHANGED << extension_enabled, config, template_path, wire, withdrawn, stat >>

NextShared ==
  \/ \E domain \in Domains : PacketFrom(domain)
  \/ \E rec \in SharedRecords : TemplateRecord(rec, FALSE)
  \/ EndTemplateSet
  \/ DataSet(FirstTemplateId, 0, DataPayload, 0)

SpecShared == Init /\ [][NextShared]_vars

\* ------------------------------------------------------------------------
\* An exporter whose packets arrive in order and without loss: the sequence
\* number of a header counts the data records of all Data Sets sent before
\* ------------------------------------------------------------------------
\* the data records the exporter has put in a set: records of AddressShape,
\* one option data record, one record of a template the collector has not seen
SetRecords(f) ==
  CASE f.id = FirstTemplateId -> Len(f.body) \div Len(CounterPayload)
    [] f.id \in { SysUpOptionTable, UnknownTable } -> 1
    [] OTHER -> 0

RECURSIVE RecordsSent(_)
RecordsSent(sets) ==
  IF sets = << >> THEN 0 ELSE SetRecords(Head(sets)) + RecordsSent(Tail(sets))

\* the packets of one, two or three well-formed sets
SequencedSets ==
  { << f >> : f \in GoodSets } \cup (GoodSets \X GoodSets)
    \cup (GoodSets \X GoodSets \X GoodSets)

\* the exporter has sent the template or option template of every Data Set
\* of these sets before the set, in this packet or an earlier one
Announced(sets) ==
  \A k \in 1..Len(sets) :
    /\ sets[k].id = FirstTemplateId =>
         \/ Installed(exporter, FirstTemplateId)
         \/ \E j \in 1..(k - 1) : sets[j].id = IPFIX_TEMPLATE_FLOWSET_ID
    /\ sets[k].id = SysUpOptionTable =>
         \/ HasOptionTable(exporter, SysUpOptionTable)
         \/ \E j \in 1..(k - 1) : sets[j].id = IPFIX_OPTIONS_FLOWSET_ID

\* the sequence number of the next header
NextSequence ==
  IF last.op = "packet" THEN last.packet.Sequence + RecordsSent(last.packet.flowsets) ELSE 0

NextSequenced ==
  \E sets \in SequencedSets :
    /\ Announced(sets)
    /\ Packet([PacketOf(sets, Room(sets)) EXCEPT !.Sequence = NextSequence])

SpecSequenced == Init /\ [][NextSequenced]_vars

\* ------------------------------------------------------------------------
\* An exporter that numbers its data records: the source address of a record
\* is its place in the stream
\* ------------------------------------------------------------------------
\* template FirstTemplateId has the start and the end of the flow in seconds,
\* template SecondTable the start only
StreamShape(id) ==
  IF id = FirstTemplateId
  THEN << Field(IPFIX_SourceIPv4Address, 4), Field(IPFIX_flowStartSeconds, 4),
          Field(IPFIX_flowEndSeconds, 4) >>
  ELSE << Field(IPFIX_SourceIPv4Address, 4), Field(IPFIX_flowStartSeconds, 4) >>

\* the n-th data record of the stream, as a record of template id
StreamRecord(id, n) ==
  U32Bytes(n) \o U32Bytes(820454400 + n)
    \o (IF id = FirstTemplateId THEN U32Bytes(820454500) ELSE << >>)

\* the Data Set of template id with the records from .. from + count - 1
StreamSet(id, from, count) ==
  LET body == IF count = 1 THEN StreamRecord(id, from)
              ELSE StreamRecord(id, from) \o StreamRecord(id, from + 1)
  IN  [id |-> id, body |-> body, length |-> 4 + Len(body)]

\* the Template Set with both templates
StreamTemplates ==
  LET body == << [id |-> FirstTemplateId, fields |-> StreamShape(FirstTemplateId)],
                 [id |-> SecondTable, fields |-> StreamShape(SecondTable)] >>
  IN  [id |-> IPFIX_TEMPLATE_FLOWSET_ID, body |-> body, length |-> 4 + RecordsLength(body)]

\* a data set of a packet: its template and its number of records
StreamSets == { [id |-> id, count |-> c] : id \in { FirstTemplateId, SecondTable },
                                           c \in 1..2 }
StreamLayouts ==
  { << a >> : a \in StreamSets } \cup { << a, b >> : a \in StreamSets, b \in StreamSets }

\* the data sets of a layout in a packet whose first record is number from
StreamData(layout, from) ==
  IF Len(layout) = 1 THEN << StreamSet(layout[1].id, from, layout[1].count) >>
  ELSE << StreamSet(layout[1].id, from, layout[1].count),
          StreamSet(layout[2].id, from + layout[1].count, layout[2].count) >>

\* the packet: the Template Set, if sent, and the data sets behind it
StreamPacket(layout, from, templates) ==
  LET sets == (IF templates THEN << StreamTemplates >> ELSE << >>)
                \o StreamData(layout, from)
  IN  [PacketOf(sets, Room(sets)) EXCEPT !.ExportTime = 820454600]

NextStream ==
  \E layout \in StreamLayouts, templates \in BOOLEAN :
    Packet(StreamPacket(layout, 4 * stat.packets + 1, templates))

SpecStream == Init /\ [][NextStream]_vars

\* ------------------------------------------------------------------------
\* Process_IPFIX one loop iteration at a time. last holds the position:
\*   [op |-> "flowset_loop", p, k, size_left, space]: at the test of the
\*     flowset loop, before the k-th set of packet p, size_left bytes left;
\*   [op |-> "template_loop", .., recs, inner, path]: at the test of the loop
\*     of Process_ipfix_template_add or _withdraw, inner bytes of the set left;
\*   [op |-> "data_loop", .., table, bytes]: at the test of the loop of
\*     Process_ipfix_data, bytes the payload left;
\*   [op |-> "returned", p]: Process_IPFIX has returned.
\* ------------------------------------------------------------------------
Loops == { "flowset_loop", "template_loop", "data_loop" }

\* the packet state Dispatch works on
Here(space) ==
  [ex |-> exporter, enabled |-> extension_enabled, maps |-> fs.extension_map_list,
   withdrawn |-> withdrawn, st |-> stat, space |-> space, records |-> << >>, dispatched |-> 0, processed |-> 0, emitted |-> 0]

\* the end of an iteration of the flowset loop: size_left -= flowset_length
NextFlowset ==
  [op |-> "flowset_loop", p |-> last.p, k |-> last.k + 1,
   size_left |-> last.size_left - last.p.flowsets[last.k].length, space |-> last.space]

\* Process_IPFIX up to the flowset loop
Receive(p) ==
  /\ last.op \in { "none", "returned" }
  /\ template_path = "idle"
  /\ stat.packets < MaxPackets
  /\ IF p.in_buff_cnt < IPFIX_HEADER_LENGTH
     THEN /\ last' = [op |-> "returned", p |-> p]
          /\ UNCHANGED stat
     ELSE /\ stat' = SequenceCheck([stat EXCEPT !.known = TRUE, !.packets = @ + 1],
                                   p.Sequence)
          /\ last' = [op |-> "flowset_loop", p |-> p, k |-> 1,
                      size_left |-> p.in_buff_cnt - IPFIX_HEADER_LENGTH,
                      space |-> p.space]
  /\ UNCHANGED << extension_enabled, config, exporter, fs, template_path, wire, withdrawn >>

\* the test of the flowset loop, the flowset header and the switch; the
\* cases without a loop run to the end of the iteration
FlowsetStep ==
  /\ last.op = "flowset_loop"
  /\ IF last.size_left = 0 \/ last.size_left < 4 \/ last.k > Len(last.p.flowsets)
     THEN /\ last' = [op |-> "returned", p |-> last.p]
          /\ UNCHANGED << extension_enabled, exporter, fs, withdrawn, stat >>
     ELSE \E f \in { last.p.flowsets[last.k] } :
       IF FlowsetStops(f.length, last.size_left)
       THEN /\ last' = [op |-> "returned", p |-> last.p]
            /\ UNCHANGED << extension_enabled, exporter, fs, withdrawn, stat >>
       ELSE IF f.id = IPFIX_TEMPLATE_FLOWSET_ID
       THEN /\ last' = [op |-> "template_loop", p |-> last.p, k |-> last.k,
                        size_left |-> last.size_left, space |-> last.space,
                        recs |-> f.body, inner |-> f.length - 4,
                        path |-> TemplatePath(Head(f.body))]
            /\ UNCHANGED << extension_enabled, exporter, fs, withdrawn, stat >>
       ELSE IF f.id >= IPFIX_MIN_RECORD_FLOWSET_ID
               /\ GetTranslationTable(exporter, f.id).table.kind # "NULL"
       THEN /\ exporter' = GetTranslationTable(exporter, f.id).ex
            /\ last' = [op |-> "data_loop", p |-> last.p, k |-> last.k,
                        size_left |-> last.size_left, space |-> last.space,
                        table |-> GetTranslationTable(exporter, f.id).table,
                        bytes |-> f.body]
            /\ UNCHANGED << extension_enabled, fs, withdrawn, stat >>
       ELSE \E s \in { Dispatch(Here(last.space), f, last.p.ExportTime, sa_family,
                                default_sampling, overwrite_sampling) } :
              /\ exporter' = s.ex
              /\ fs' = [fs EXCEPT !.extension_map_list = s.maps]
              /\ extension_enabled' = s.enabled
              /\ withdrawn' = s.withdrawn
              /\ stat' = s.st
              /\ last' = NextFlowset
  /\ UNCHANGED << config, template_path, wire >>

\* one iteration of the while loop of Process_ipfix_template_add or
\* Process_ipfix_template_withdraw, or its end
TemplateStep ==
  /\ last.op = "template_loop"
  /\ \E r \in { IF last.recs = << >> THEN [size_left |-> last.inner]
                ELSE TemplateLoop([ex |-> exporter, enabled |-> extension_enabled,
                                   maps |-> fs.extension_map_list,
                                   withdrawn |-> withdrawn, size_left |-> last.inner,
                                   path |-> last.path],
                                  << Head(last.recs) >>, sa_family) } :
       IF last.recs = << >> \/ last.inner < 4 \/ r.size_left = last.inner
       THEN \* size_left is 0, or the record does not fit: return
            /\ stat' = [stat EXCEPT !.TemplateRecords = @ + 1]
            /\ last' = NextFlowset
            /\ UNCHANGED << extension_enabled, exporter, fs, withdrawn >>
       ELSE /\ exporter' = r.ex
            /\ fs' = [fs EXCEPT !.extension_map_list = r.maps]
            /\ extension_enabled' = r.enabled
            /\ withdrawn' = r.withdrawn
            /\ last' = [last EXCEPT !.recs = Tail(@), !.inner = r.size_left,
                                    !.path = r.path]
            /\ UNCHANGED stat
  /\ UNCHANGED << config, template_path, wire >>

\* one iteration of the while loop of Process_ipfix_data, or its end
DataStep ==
  /\ last.op = "data_loop"
  /\ \E d \in { Process_ipfix_data(exporter, last.table, last.p.ExportTime, last.bytes,
                                   IF last.space > 0 THEN 1 ELSE 0, 0,
                                   default_sampling, overwrite_sampling) } :
     \E x \in { RunRecord(Deref(exporter, last.table), last.bytes, 0,
                          d.sampling_rate, last.p.ExportTime) } :
       /\ exporter' = d.ex
       /\ IF d.processed = 0
          THEN \* size_left < 4 or no room in the output buffer
               /\ stat' = [stat EXCEPT !.DataRecords = @ + 1]
               /\ last' = NextFlowset
          ELSE IF x.overrun \/ x.input_offset > Len(last.bytes)
          THEN /\ stat' = [stat EXCEPT !.PacketSequence = @ + 1, !.DataRecords = @ + 1]
               /\ last' = [NextFlowset EXCEPT !.space = @ - 1]
          ELSE /\ stat' = [stat EXCEPT !.PacketSequence = @ + 1]
               /\ last' = [last EXCEPT !.bytes = DropBytes(@, x.input_offset),
                                       !.space = @ - 1]
  /\ UNCHANGED << extension_enabled, config, fs, template_path, wire, withdrawn >>

LoopStep == FlowsetStep \/ TemplateStep \/ DataStep

NextLoop ==
  \/ \E p \in Packets \cup CutPackets : Receive(p)
  \/ LoopStep

SpecLoop == Init /\ [][NextLoop]_vars

\* ------------------------------------------------------------------------
\* An exporter whose templates have runs of fields that are not in the
\* element map, short and long, of fixed and of dynamic length
\* ------------------------------------------------------------------------
CompactFields ==
  { Field(IPFIX_SourceIPv4Address, 4), PaddingField(3), PaddingField(32767),
    PaddingField(32768), PaddingField(40000), PaddingField(DYN_FIELD_LENGTH) }

NextCompact ==
  \/ \E f \in CompactFields : DeclareField(f)
  \/ SendTemplate

SpecCompact == InitCompile /\ [][NextCompact]_vars

\* ------------------------------------------------------------------------
\* An exporter that declares one set of fields in two wire orders: template
\* FirstTemplateId in the order declared, template SecondTable in another
\* ------------------------------------------------------------------------
\* common record elements and an element of the out-bytes extension
OrderFields ==
  { Field(IPFIX_DestinationIPv4Address, 4), Field(IPFIX_SourceIPv4Address, 4),
    Field(IPFIX_protocolIdentifier, 1), Field(IPFIX_octetDeltaCount, 8),
    Field(IPFIX_packetDeltaCount, 8), Field(IPFIX_postOctetDeltaCount, 8) }

\* the orders of n fields
Orders(n) == { p \in [1..n -> 1..n] : \A i, j \in 1..n : i # j => p[i] # p[j] }

\* the fields in the order p
Reordered(fields, p) == [ k \in 1..Len(fields) |-> fields[p[k]] ]

\* the exporter declares a field it has not declared yet
DeclareNewField(f) ==
  /\ \A k \in 1..Len(wire) : wire[k] # f
  /\ DeclareField(f)

\* the same fields arrive as template SecondTable, in the order p
SendReordered(p) ==
  /\ last.op = "template"
  /\ last.id = FirstTemplateId
  /\ TemplateRecord([id |-> SecondTable, fields |-> Reordered(wire, p)], FALSE)

NextOrder ==
  \/ \E f \in OrderFields : DeclareNewField(f)
  \/ SendTemplate
  \/ \E p \in Orders(Len(wire)) : SendReordered(p)

SpecOrder == InitCompile /\ [][NextOrder]_vars

\* ------------------------------------------------------------------------
\* Properties of the compiled sequencer
\* ------------------------------------------------------------------------
\* the bytes of output a sequencer op writes at output_offset (the switch of
\* Process_ipfix_data); ops that only fill the scratch fields write none
OutputWidth(id) ==
  CASE id \in {"move8", "move_flags", "zero8"} -> 1
    [] id \in {"move16", "zero16"} -> 2
    [] id \in {"move32", "move_mpls", "zero32"} -> 4
    [] id \in {"move40", "move48", "move56", "move64", "move32_sampling",
               "move48_sampling", "move64_sampling", "move_mac", "zero64"} -> 8
    [] id \in {"move128", "zero128"} -> 16
    [] OTHER -> 0

\* the bytes the VM has consumed before it executes sequence[k] (fixed lengths)
RECURSIVE InputOffsetAt(_, _)
InputOffsetAt(sequence, k) ==
  IF k <= 1 THEN 0
  ELSE InputOffsetAt(sequence, k - 1)
       + sequence[k - 1].input_length + sequence[k - 1].skip_count

HasDynamicField(fields) == \E k \in 1..Len(fields) : fields[k].length = DYN_FIELD_LENGTH

\* the element id MapElement looks a field up by
ElementType(f) ==
  IF f.enterprise = IPFIX_ReverseInformationElement THEN ipfixReverseMap(f.type)
  ELSE f.type

\* the last step accepted a template record
Accepted == last.op = "template" /\ last.accepted
\* the table it was compiled into
AcceptedTable == TableOf(exporter, last.id)

\* C1: for every accepted template without a dynamic-length field the ops of
\* the compiled sequencer consume, in input_length + skip_count, exactly the
\* number of bytes the template record declares.
C1_ConsumedEqualsDeclared ==
  Accepted =>
    LET fields == last.fields
        sequence == AcceptedTable.sequence
    IN  ~HasDynamicField(fields) =>
          InputOffsetAt(sequence, Len(sequence) + 1) = DeclaredOffset(fields, Len(fields) + 1)

\* C2: after a successful reorder the ops that consume input stand in wire
\* order: each such op is executed at the offset at which the template
\* declares a field of the op's element type, and with that field's length
\* (templates of fixed-length fields, whose offsets the template fixes).
C2_WireOrder ==
  Accepted =>
    LET fields == last.fields
        sequence == AcceptedTable.sequence
    IN  ~HasDynamicField(fields) =>
          \A n \in 1..Len(sequence) :
            sequence[n].input_length > 0 =>
              \E j \in 1..Len(fields) :
                /\ ElementType(fields[j]) = sequence[n].type
                /\ fields[j].length = sequence[n].input_length
                /\ DeclaredOffset(fields, j) = InputOffsetAt(sequence, n)

\* the table fits its output record: every op that writes, the router address
\* and the receive time stay inside output_record_size
TableFitsRecord(t, family) ==
  /\ \A n \in 1..Len(t.sequence) :
       OutputWidth(t.sequence[n].id) > 0 =>
         t.sequence[n].output_offset + OutputWidth(t.sequence[n].id) <= t.output_record_size
  /\ t.router_ip_offset # 0 =>
       t.router_ip_offset + (IF family = "INET6" THEN 16 ELSE 4) <= t.output_record_size
  /\ t.received_offset # 0 => t.received_offset + 8 <= t.output_record_size

\* C3: for every op of a compiled sequencer that writes to the output record,
\* output_offset plus the width written is at most output_record_size, and so
\* are router_ip_offset + 4 (16 for an IPv6 exporter) and received_offset + 8.
C3_OutputInsideRecord ==
  Accepted => TableFitsRecord(AcceptedTable, sa_family)

\* witness for C3: an accepted template whose table has ops that write, a
\* router address slot and a receive time slot
C3_Witness ==
  /\ Accepted
  /\ LET t == AcceptedTable
     IN  /\ t.router_ip_offset # 0 /\ t.received_offset # 0
         /\ \E n \in 1..Len(t.sequence) : t.sequence[n].id = "move128"
         /\ \E n \in 1..Len(t.sequence) : t.sequence[n].id = "zero64"
         /\ Len(last.fields) = MaxFields

\* ------------------------------------------------------------------------
\* Properties of the template list
\* ------------------------------------------------------------------------
\* the ids of the list entries, in list order
ListIds(ex) ==
  [ k \in 1..Len(ex.input_translation_table) |-> ex.input_translation_table[k].id ]

\* C4: whatever adds, refreshes, withdraws and withdraw-alls an exporter has
\* seen, its template list holds at most one entry per template id.
C4_OneEntryPerId ==
  \A j, k \in 1..Len(ListIds(exporter)) :
    ListIds(exporter)[j] = ListIds(exporter)[k] => j = k

\* a refresh of a listed template is accepted while the list holds another
\* template and some id has been withdrawn
C4_Witness ==
  /\ Accepted /\ last.installed
  /\ Len(ListIds(exporter)) >= 2
  /\ withdrawn # {}

\* the step handles a field-count 0 record of a template id on the withdraw path
WithdrawStep ==
  /\ last'.op = "template" /\ last'.handled = "withdraw"
  /\ last'.fields = << >> /\ last'.id # IPFIX_TEMPLATE_FLOWSET_ID

\* C5: the withdraw of a template id other than 2 removes only that template:
\* every other template installed before the step is installed after it.
C5_WithdrawRemovesOnlyThat ==
  [][WithdrawStep =>
       (InstalledIds(exporter) \ {last'.id}) \subseteq InstalledIds(exporter')]_vars

\* C6: once a field-count 0 record for id T has been processed, and until a
\* template record for T is accepted again, T is not installed and a data set
\* with id T emits no record; and the step that processed the record called
\* RemoveExtensionMap for the map of an installed T.
C6_WithdrawnStaysOut ==
  /\ \A T \in withdrawn : ~Installed(exporter, T)
  /\ (last.op = "data" /\ last.id \in withdrawn) => last.emitted = 0
  /\ (last.op = "template" /\ last.handled # "skip" /\ last.fields = << >>
        /\ last.id \in TemplateIds /\ last.installed) => last.RemoveExtensionMap

\* C7: every template record of a Template Set is handled by its own
\* field-count: 0 is a withdraw of its id, more than 0 an add or refresh.
C7_OwnFieldCount ==
  last.op = "template" =>
    last.handled = (IF last.fields = << >> THEN "withdraw" ELSE "add")

\* ------------------------------------------------------------------------
\* Properties of a template sent again
\* ------------------------------------------------------------------------
\* the step handles, as an add, a record equal to the one its id is installed with
IdenticalResendStep ==
  last'.op = "template" /\ last'.handled = "add" /\ last'.identical

\* C8: re-sending the template record an id is installed with does not call
\* AddExtensionMap (extension_map_changed stays false), leaves the tags and
\* the size of the extension map as they were, and compiles a sequencer equal
\* to the previous one op for op.
C8_IdenticalResend ==
  [][IdenticalResendStep =>
       LET before == TableOf(exporter, last'.id)
           after == TableOf(exporter', last'.id)
       IN  /\ Installed(exporter', last'.id)
           /\ ~last'.AddExtensionMap
           /\ ExtensionTags(after.map.ex_id) = ExtensionTags(before.map.ex_id)
           /\ after.map.size = before.map.size
           /\ after.sequence = before.sequence]_vars

\* a template of at least two fields, compiled with extensions, has been sent
\* again unchanged
C8_Witness ==
  /\ last.op = "template" /\ last.identical /\ last.accepted
  /\ Len(last.fields) >= 2
  /\ Len(ExtensionTags(AcceptedTable.map.ex_id)) >= 2

\* the step handles, as an add, the record its id is installed with less one
\* field specifier
ResendWithoutStep ==
  /\ last'.op = "template" /\ last'.handled = "add" /\ last'.installed
  /\ \E k \in 1..Len(TableOf(exporter, last'.id).fields) :
       last'.fields = RemoveAt(TableOf(exporter, last'.id).fields, k)

\* C9: re-sending the template of an installed id with one element removed
\* sets extension_map_changed (AddExtensionMap is called) and compiles a
\* smaller output_record_size, whichever element was removed.
C9_ResendWithoutElement ==
  [][ResendWithoutStep =>
       /\ last'.AddExtensionMap
       /\ TableOf(exporter', last'.id).output_record_size
            < TableOf(exporter, last'.id).output_record_size]_vars

\* ------------------------------------------------------------------------
\* Properties of the sampling rate
\* ------------------------------------------------------------------------
\* C10: the sampling rate of a data set is overwrite_sampling when nonzero,
\* else the interval of the sampler with id -1 when there is one, else
\* default_sampling, and 1 when none of these is configured.
C10_SamplingRate ==
  last.op = "data" =>
    last.sampling_rate =
      IF overwrite_sampling # 0 THEN overwrite_sampling
      ELSE IF \E k \in 1..Len(exporter.sampler) : exporter.sampler[k].id = -1
      THEN exporter.sampler[CHOOSE k \in 1..Len(exporter.sampler) :
                              exporter.sampler[k].id = -1].interval
      ELSE IF default_sampling # 0 THEN default_sampling
      ELSE 1

\* the value an emitted record r of table t holds in the output field of element Type
OutputField(t, r, Type) ==
  r.out[t.sequence[CHOOSE n \in 1..Len(t.sequence) : t.sequence[n].type = Type].output_offset]

\* the sampler with this id that option data has announced, if any
SamplerOf(id) == { exporter.sampler[k] : k \in { j \in 1..Len(exporter.sampler) :
                                                  exporter.sampler[j].id = id } }

\* C11: once option data of an option template with selectorId,
\* selectorAlgorithm and samplingPacketInterval has announced sampler 1 with
\* interval N (and nothing else sets a rate: no overwrite, the default rate 1,
\* no standard sampler), the octetDeltaCount of every data record is stored
\* multiplied by N, and the record carries FLAG_SAMPLED.
C11_SamplerDiscovery ==
  (last.op = "data" /\ overwrite_sampling = 0 /\ default_sampling = 1
     /\ SamplerOf(-1) = {}) =>
    \A smp \in SamplerOf(1) :
      smp.interval > 1 =>
        \A k \in 1..Len(last.records) :
          /\ OutputField(TableOf(exporter, last.id), last.records[k], IPFIX_octetDeltaCount)
               = 50 * smp.interval
          /\ "FLAG_SAMPLED" \in last.records[k].flags

\* C12: an emitted record carries FLAG_SAMPLED exactly if the sampling rate
\* of its data set is not 1.
C12_SampledFlag ==
  last.op = "data" =>
    \A k \in 1..Len(last.records) :
      ("FLAG_SAMPLED" \in last.records[k].flags) <=> (last.sampling_rate # 1)

\* ------------------------------------------------------------------------
\* Properties of the emitted records
\* ------------------------------------------------------------------------
\* C13: if the first or the last epoch reconstructed for a record is below
\* 820454400 seconds, the record is emitted with first, last, msec_first and
\* msec_last all zero.
C13_EpochSanityGate ==
  last.op = "data" =>
    \A k \in 1..Len(last.records) :
      LET r == last.records[k]
      IN  (r.flow_start.s < 820454400 \/ r.flow_end.s < 820454400) =>
            (r.first = 0 /\ r.last = 0 /\ r.msec_first = 0 /\ r.msec_last = 0)

\* C14: with an icmpTypeCode element in the template, a record of protocol 1
\* or 58 is emitted with source port 0 and the ICMP type/code as destination
\* port, whatever the type/code value, zero included; a record of protocol 6
\* keeps the ports of the wire.
C14_IcmpPorts ==
  (/\ last.op = "data" /\ last.id = SecondsTable
   /\ \E n \in 1..Len(TableOf(exporter, last.id).sequence) :
        TableOf(exporter, last.id).sequence[n].id = "saveICMP") =>
    \A k \in 1..Len(last.records) :
      LET r == last.records[k]
          at == (k - 1) * 15
          icmp == Unsigned(SubSeq(last.bytes, at + 14, at + 15))
      IN  /\ r.prot \in {1, 58} => (r.srcport = 0 /\ r.dstport = icmp)
          /\ r.prot = 6 => /\ r.srcport = Unsigned(SubSeq(last.bytes, at + 10, at + 11))
                           /\ r.dstport = Unsigned(SubSeq(last.bytes, at + 12, at + 13))

\* C20: no step of the sequencer reads a byte at or after size_left of the data
\* set, and a record whose declared length exceeds the bytes that remain is
\* not emitted: NumRecords and the statistics count only whole records.
C20_TruncatedRecord ==
  last.op = "data" =>
    /\ last.read_end <= last.size_left
    /\ LET fields == TableOf(exporter, last.id).fields
       IN  last.emitted * DeclaredOffset(fields, Len(fields) + 1) <= last.size_left

\* ------------------------------------------------------------------------
\* Properties of Process_IPFIX
\* ------------------------------------------------------------------------
\* a step that processes the packet of last'
PacketStep == last'.op = "packet" /\ last'.packet.in_buff_cnt >= IPFIX_HEADER_LENGTH

\* C15: when the header sequence differs from the expected one,
\* sequence_failure is incremented if the exporter has processed a data set
\* before (DataRecords # 0) and unchanged otherwise, and the expected sequence
\* is the header sequence when the sets of the packet are processed (it is
\* then advanced by one for every data record); when the two are equal,
\* sequence_failure is unchanged.
C15_SequenceCheck ==
  [][PacketStep =>
       LET Sequence == last'.packet.Sequence
       IN  /\ Sequence # stat.PacketSequence =>
                stat'.sequence_failure =
                  stat.sequence_failure + (IF stat.DataRecords # 0 THEN 1 ELSE 0)
           /\ Sequence = stat.PacketSequence =>
                stat'.sequence_failure = stat.sequence_failure
           /\ stat'.PacketSequence = Sequence + last'.processed]_vars

\* a packet out of sequence after a data set has been counted as a failure
C15_FailureCounted ==
  last.op = "packet" /\ stat.sequence_failure = 1 /\ stat.DataRecords # 0

\* C16: a packet whose header version is not 10 is dropped: no exporter is
\* created, nothing of the exporter changes and no record is emitted.
C16_VersionChecked ==
  [][(PacketStep /\ last'.packet.version # 10) =>
       (exporter' = exporter /\ stat' = stat /\ last'.emitted = 0)]_vars

\* the bytes of packet p before its k-th set
BytesBefore(p, k) ==
  IPFIX_HEADER_LENGTH
    + (IF k > 1 THEN SetLength(p.flowsets[1].id, p.flowsets[1].body) ELSE 0)

\* the sets of packet p whose header declares a length in Lengths(size_left),
\* size_left the bytes of the packet from that header on
SetsWith(p, Lengths(_)) ==
  { k \in 1..Len(p.flowsets) :
      p.flowsets[k].length \in Lengths(p.in_buff_cnt - BytesBefore(p, k)) }

\* the exporter, the enabled extensions and the counters are after packet p' as
\* after the packet that ends before the k-th set of p', and only the sets
\* before the k-th reached the switch on the set id
EndsBefore(k) ==
  LET p == last'.packet
      r == Process_IPFIX([ex |-> exporter, enabled |-> extension_enabled,
                          maps |-> fs.extension_map_list,
                          withdrawn |-> withdrawn, st |-> stat,
                          space |-> p.space, records |-> << >>,
                          dispatched |-> 0, processed |-> 0, emitted |-> 0],
                         [p EXCEPT !.flowsets = SubSeq(p.flowsets, 1, k - 1),
                                   !.in_buff_cnt = BytesBefore(p, k)],
                         sa_family, default_sampling, overwrite_sampling)
  IN  /\ last'.dispatched = k - 1
      /\ exporter' = r.ex /\ extension_enabled' = r.enabled /\ stat' = r.st
      /\ last'.emitted = r.emitted

\* C17: when a flowset header declares a length below 4 or above the bytes
\* that remain in the packet, no further set of the packet is dispatched, the
\* effects of the sets before it are kept, and the exporter is in the state a
\* packet that held only those sets leaves it in.
C17_MalformedFlowset ==
  [][PacketStep =>
       \A k \in SetsWith(last'.packet, LAMBDA size_left : (0..3) \cup (size_left + 1..1000)) :
         EndsBefore(k)]_vars

\* a set was dispatched and the set behind it declared a wrong length
C17_SecondSetMalformed ==
  /\ last.op = "packet" /\ last.dispatched = 1
  /\ Len(last.packet.flowsets) = 2 /\ last.packet.flowsets[2].length \in {0, 3, 1000}
  /\ stat.TemplateRecords + stat.DataRecords > 0

\* C18: a set whose header declares the length 4 is padding whatever its id:
\* it installs, refreshes or withdraws no template, changes no sampler and no
\* option descriptor and emits no record.
C18_EmptyFlowset ==
  [][PacketStep =>
       \A k \in SetsWith(last'.packet, LAMBDA size_left : {4}) :
         /\ EndsBefore(k)
         /\ k = 1 =>
              /\ exporter'.input_translation_table = exporter.input_translation_table
              /\ exporter'.sampler = exporter.sampler
              /\ exporter'.samplerOption = exporter.samplerOption
              /\ exporter'.SysUpOption = exporter.SysUpOption
              /\ last'.emitted = 0]_vars

\* a packet that starts with a set of length 4 and the id of an Options
\* Template Set has been processed
C18_OptionSetOfLength4 ==
  /\ last.op = "packet" /\ last.packet.flowsets # << >>
  /\ last.packet.flowsets[1].length = 4
  /\ last.packet.flowsets[1].id = IPFIX_OPTIONS_FLOWSET_ID
  /\ last.dispatched = 0 /\ stat.packets > 0

\* C19: a Data Set whose id is not that of an installed template nor the table
\* id of an announced option template is dropped: no record is emitted, and
\* SysUpTime, the samplers and the templates of the exporter are unchanged,
\* also when an option template has announced systemInitTimeMilliseconds.
C19_UnknownDataSet ==
  [][(/\ PacketStep
      /\ Len(last'.packet.flowsets) = 1
      /\ last'.packet.flowsets[1] \in GoodSets
      /\ last'.packet.flowsets[1].id = UnknownTable) =>
       /\ exporter'.SysUpTime = exporter.SysUpTime
       /\ exporter'.sampler = exporter.sampler
       /\ exporter'.input_translation_table = exporter.input_translation_table
       /\ last'.emitted = 0]_vars


\* ------------------------------------------------------------------------
\* Properties of sets that end inside a record
\* ------------------------------------------------------------------------
\* the first of the template records recs, the n-th of its set, that begins in
\* the size_left bytes left of the set and declares more field bytes than
\* follow its header there; 0 if there is none
RECURSIVE FirstCut(_, _, _)
FirstCut(recs, size_left, n) ==
  IF recs = << >> \/ size_left < 4 THEN 0
  ELSE IF size_left - 4 < FieldBytes(Head(recs).fields) THEN n
  ELSE FirstCut(Tail(recs), size_left - 4 - FieldBytes(Head(recs).fields), n + 1)

\* the record of the k-th set of packet p that is cut, 0 if none is
CutRecord(p, k) ==
  IF p.flowsets[k].id = IPFIX_TEMPLATE_FLOWSET_ID
  THEN IF Head(p.flowsets[k].body).fields # << >>
       THEN FirstCut(p.flowsets[k].body, p.flowsets[k].length - 4, 1) ELSE 0
  ELSE 0

\* the headers of the sets of p declare lengths above 4 that add up to the
\* bytes of the packet
WellFormedSets(p) ==
  /\ p.in_buff_cnt = IPFIX_HEADER_LENGTH + LengthOf(p.flowsets)
  /\ \A k \in 1..Len(p.flowsets) : p.flowsets[k].length > 4

\* C21: a template record that declares more field bytes (4 a field, 4 more
\* an enterprise field) than its Template Set has left installs and changes
\* no template (the table of its id is as before the packet unless another
\* record or set of the packet names the id), the records before it in the
\* set are installed, and every set of the packet reaches the switch.
C21_CutTemplateRecord ==
  [][PacketStep =>
       \A k \in 1..Len(last'.packet.flowsets) :
         LET p == last'.packet
             f == p.flowsets[k]
             n == CutRecord(p, k)
         IN  n # 0 =>
               /\ WellFormedSets(p) => last'.dispatched = Len(p.flowsets)
               /\ ( /\ \A j \in 1..Len(p.flowsets) \ {k} :
                          p.flowsets[j].id \notin { IPFIX_TEMPLATE_FLOWSET_ID, f.body[n].id }
                    /\ \A m \in 1..Len(f.body) \ {n} : f.body[m].id # f.body[n].id )
                  => /\ Installed(exporter', f.body[n].id) = Installed(exporter, f.body[n].id)
                     /\ Installed(exporter, f.body[n].id)
                          => TableOf(exporter', f.body[n].id) = TableOf(exporter, f.body[n].id)
               /\ \A m \in 1..n - 1 :
                    /\ Installed(exporter', f.body[m].id)
                    /\ TableOf(exporter', f.body[m].id).fields = f.body[m].fields]_vars

\* the second record of a Template Set was cut before its enterprise number,
\* the first is installed, and both records of the Data Set behind it were
\* written
C21_CutBeforeEnterpriseNumber ==
  /\ last.op = "packet" /\ Len(last.packet.flowsets) = 2
  /\ last.packet.flowsets[1] \in CutTemplateSets
  /\ CutRecord(last.packet, 1) = 2
  /\ last.packet.flowsets[1].body[2].fields = ReverseShape
  /\ last.dispatched = 2 /\ last.emitted = 2
  /\ Installed(exporter, FirstTemplateId) /\ ~Installed(exporter, SecondTable)


\* the Options Template Set f is rejected: its scope field count is 0, or its
\* field specifiers, enterprise numbers included, need more bytes than the set
\* has behind the 10 bytes of its headers
RejectedOption(f) ==
  /\ f.id = IPFIX_OPTIONS_FLOWSET_ID
  /\ f.body.scope_field_count = 0 \/ f.length - 10 < FieldBytes(f.body.fields)

\* C22: a packet whose Options Template Sets are all rejected leaves the
\* exporter's option state as it was: the list of sampler option descriptors
\* and the offset and length of SysUpOption.
C22_RejectedOptionTemplate ==
  [][( /\ PacketStep
       /\ \E k \in 1..Len(last'.packet.flowsets) : RejectedOption(last'.packet.flowsets[k])
       /\ \A k \in 1..Len(last'.packet.flowsets) :
            last'.packet.flowsets[k].id = IPFIX_OPTIONS_FLOWSET_ID
              => RejectedOption(last'.packet.flowsets[k]) )
       => /\ exporter'.samplerOption = exporter.samplerOption
          /\ exporter'.SysUpOption = exporter.SysUpOption]_vars


\* the bytes of a data record of the template installed for id
RecordLength(ex, id) ==
  DeclaredOffset(TableOf(ex, id).fields, Len(TableOf(ex, id).fields) + 1)

\* C23: when the first set of a packet is a Data Set of an installed template
\* and the output buffer has room for fewer records than the set holds, the
\* records the buffer has room for are written whole, no further record is
\* begun and no set behind the Data Set reaches the switch.
C23_NoOutputSpace ==
  [][( /\ PacketStep /\ WellFormedSets(last'.packet)
       /\ Len(last'.packet.flowsets) >= 1
       /\ last'.packet.flowsets[1].id >= IPFIX_MIN_RECORD_FLOWSET_ID
       /\ Installed(exporter, last'.packet.flowsets[1].id)
       /\ Len(last'.packet.flowsets[1].body)
            > last'.packet.space * RecordLength(exporter, last'.packet.flowsets[1].id) )
       => /\ last'.processed = last'.packet.space
          /\ last'.emitted = last'.packet.space
          /\ last'.dispatched = 1]_vars


\* ------------------------------------------------------------------------
\* Properties of the record loop of Process_ipfix_data
\* ------------------------------------------------------------------------
\* C24: the first data record of a Data Set finds every variable of the
\* table's scratch frame zero: flow_start, flow_end, duration, SysUpTime,
\* HasTimeMili, icmpTypeCode, packets, bytes, out_packets and out_bytes.
C24_ScratchFrameZero ==
  [][( /\ last'.op = "data" /\ last'.size_left >= 4
       /\ Installed(exporter, last'.id) )
       => ScratchFrame(TableOf(exporter, last'.id))
            = [flow_start |-> [s |-> 0, ms |-> 0], flow_end |-> [s |-> 0, ms |-> 0],
               duration |-> [s |-> 0, ms |-> 0], SysUpTime |-> [s |-> 0, ms |-> 0],
               HasTimeMili |-> 0, icmpTypeCode |-> 0, packets |-> 0, bytes |-> 0,
               out_packets |-> 0, out_bytes |-> 0]]_vars


\* C25: a Data Set that holds the same record twice, both whole, yields two
\* output records that are equal byte for byte (template, sampling rate,
\* exporter SysUpTime and export time are those of the one Data Set).
C25_SameRecordTwice ==
  ( /\ last.op = "data" /\ last.emitted = 2 /\ Installed(exporter, last.id)
    /\ last.size_left = 2 * RecordLength(exporter, last.id)
    /\ SubSeq(last.bytes, 1, RecordLength(exporter, last.id))
         = SubSeq(last.bytes, RecordLength(exporter, last.id) + 1, last.size_left) )
    => last.records[1] = last.records[2]

\* an ICMP record with type and code 8/0 was written twice: the second record
\* started with the icmpTypeCode the first had left in the table
C25_IcmpTwice ==
  /\ last.op = "data" /\ last.id = SecondsTable /\ last.emitted = 2
  /\ last.size_left = 2 * RecordLength(exporter, last.id)
  /\ last.records[1].prot = 1 /\ last.records[1].dstport = 2048
  /\ last.records[2].dstport = 2048 /\ last.records[2].srcport = 0
  /\ TableOf(exporter, last.id).icmpTypeCode = 2048


\* ------------------------------------------------------------------------
\* Properties of the time base of a template
\* ------------------------------------------------------------------------
\* the first base of TimeBases whose start element the template declares, 0
\* if it declares none
PreferredBase(fields) ==
  LET present == { n \in 1..Len(TimeBases) :
                     \E k \in 1..Len(fields) :
                       fields[k].type = TimeBases[n].start /\ fields[k].enterprise = 0 }
  IN  IF present = {} THEN 0 ELSE CHOOSE n \in present : \A m \in present : n <= m

\* the bytes of the element Type in a record of the template
ValueOf(fields, bytes, Type) ==
  LET k == CHOOSE k \in 1..Len(fields) : fields[k].type = Type
  IN  SubSeq(bytes, DeclaredOffset(fields, k) + 1, DeclaredOffset(fields, k) + fields[k].length)

\* the time in milliseconds that base n gives the element Type of the record
BaseTime(n, fields, bytes, ExportTime, Type) ==
  CASE n = 1 -> MsecBefore(ExportTime, Unsigned(ValueOf(fields, bytes, Type)))
    [] n = 2 -> MsecValue(ValueOf(fields, bytes, Type))
    [] n = 3 -> MsecSum(MsecValue(ValueOf(fields, bytes, Type)),
                        MsecValue(ValueOf(fields, bytes, IPFIX_SystemInitTimeMiliseconds)))
    [] n = 4 -> [s |-> Unsigned(ValueOf(fields, bytes, Type)), ms |-> 0]
    [] OTHER -> [s |-> 0, ms |-> 0]

\* C26: a template is compiled for the first time base, in the order delta
\* microseconds, milliseconds, sysUpTime, seconds, whose start element it
\* declares. A record of it (with times after 1995) is written with first and
\* last taken from the start and end element of that base alone, the time
\* stamps of the other bases in the record being skipped, and with first =
\* last = 0 when the template declares no start element.
C26_TimeBase ==
  ( /\ last.op = "packet" /\ Len(last.packet.flowsets) = 2
    /\ last.packet.flowsets[1].id = IPFIX_TEMPLATE_FLOWSET_ID
    /\ Len(last.packet.flowsets[1].body) = 1
    /\ last.packet.flowsets[2].id = last.packet.flowsets[1].body[1].id
    /\ last.packet.flowsets[2].body = RecordBytes(last.packet.flowsets[1].body[1].fields) )
    => LET fields == last.packet.flowsets[1].body[1].fields
           bytes == last.packet.flowsets[2].body
           n == PreferredBase(fields)
           first == BaseTime(n, fields, bytes, last.packet.ExportTime,
                             IF n = 0 THEN 0 ELSE TimeBases[n].start)
           end == BaseTime(n, fields, bytes, last.packet.ExportTime,
                           IF n = 0 THEN 0 ELSE TimeBases[n].end)
       IN  /\ Installed(exporter, last.packet.flowsets[2].id)
           /\ Len(last.records) = 1
           /\ last.records[1].first = first.s /\ last.records[1].msec_first = first.ms
           /\ last.records[1].last = end.s /\ last.records[1].msec_last = end.ms


\* the seconds and milliseconds of t (a time as [s, ms]) plus n milliseconds
PlusMs(t, n) ==
  [s |-> t.s + (n \div 1000) + ((t.ms + (n % 1000)) \div 1000),
   ms |-> (t.ms + (n % 1000)) % 1000]

\* C27: with flowStartSysUpTime = s and flowEndSysUpTime = e and the
\* exporter's SysUpTime set by option data to U (after 1995), a record without
\* a systemInitTimeMilliseconds of its own, or with a zero one, is written with
\* first = (U + s) div 1000 and last = (U + e) div 1000, the milliseconds
\* being the remainders; a record with its own nonzero
\* systemInitTimeMilliseconds is written with that value in the place of U.
C27_SysUpTimeBase ==
  ( /\ last.op = "data" /\ last.id \in { FirstTemplateId, SecondTable }
    /\ Installed(exporter, last.id)
    /\ TableOf(exporter, last.id).fields = UpTimeShape(last.id)
    /\ last.bytes \in UpTimeRecords(last.id) )
    => LET own == IF last.id = SecondTable THEN MsecValue(SubSeq(last.bytes, 9, 16))
                  ELSE [s |-> 0, ms |-> 0]
           U == IF own.s # 0 \/ own.ms # 0 THEN own ELSE exporter.SysUpTime
           first == PlusMs(U, Unsigned(SubSeq(last.bytes, 1, 4)))
           end == PlusMs(U, Unsigned(SubSeq(last.bytes, 5, 8)))
       IN  U.s >= 820454400 =>
             /\ last.emitted = 1
             /\ last.records[1].first = first.s /\ last.records[1].msec_first = first.ms
             /\ last.records[1].last = end.s /\ last.records[1].msec_last = end.ms

\* option data set SysUpTime to 1700000000600 and a record with start 5500
\* and end 8000 was written with first 1700000006.100
C27_FirstFromOptionData ==
  /\ last.op = "data" /\ last.id = FirstTemplateId /\ last.emitted = 1
  /\ exporter.SysUpTime = [s |-> 1700000000, ms |-> 600]
  /\ last.bytes = U32Bytes(5500) \o U32Bytes(8000) \o << 10, 0, 0, 1 >>
  /\ last.records[1].first = 1700000006 /\ last.records[1].msec_first = 100
  /\ last.records[1].last = 1700000008 /\ last.records[1].msec_last = 600

\* ------------------------------------------------------------------------
\* Enterprise fields
\* ------------------------------------------------------------------------
\* the field is one of the four forward elements of ipfixReverseMap
InReverseMap(f) == ipfixReverseMap(f.type) # f.type

\* sequence[n] reads the bytes of field j: it stands at the field's offset and
\* takes the field's length
ReadsField(sequence, n, fields, j) ==
  /\ sequence[n].input_length = fields[j].length
  /\ InputOffsetAt(sequence, n) = DeclaredOffset(fields, j)

\* no op of the sequence reads a byte of field j
FieldSkipped(sequence, fields, j) ==
  \A n \in 1..Len(sequence) :
    sequence[n].input_length > 0 =>
      \/ InputOffsetAt(sequence, n) + sequence[n].input_length <= DeclaredOffset(fields, j)
      \/ InputOffsetAt(sequence, n) >= DeclaredOffset(fields, j) + fields[j].length

\* the skip_count of an op carries the sequencer over the bytes of field j
SteppedOver(sequence, fields, j) ==
  \E n \in 1..Len(sequence) :
    /\ InputOffsetAt(sequence, n) + sequence[n].input_length <= DeclaredOffset(fields, j)
    /\ InputOffsetAt(sequence, n + 1) >= DeclaredOffset(fields, j) + fields[j].length

\* C28: in an accepted template of fixed-length fields, compiled with the
\* out-bytes and out-packets extensions enabled, a 4 or 8 byte field with enterprise number 29305 and an
\* element of the reverse map is read by an op of the corresponding post*
\* element that writes to the output record, and a field with another
\* enterprise number is read by no op and stepped over by a skip_count of its
\* declared length.
C28_EnterpriseField ==
  (Accepted /\ {EX_OUT_BYTES_8, EX_OUT_PKG_8} \subseteq extension_enabled
     /\ ~HasDynamicField(last.fields)) =>
    LET fields == last.fields
        sequence == AcceptedTable.sequence
    IN  \A j \in 1..Len(fields) :
          /\ (fields[j].enterprise = IPFIX_ReverseInformationElement
                /\ InReverseMap(fields[j]) /\ fields[j].length \in {4, 8}) =>
               \E n \in 1..Len(sequence) :
                 /\ sequence[n].type = ipfixReverseMap(fields[j].type)
                 /\ ReadsField(sequence, n, fields, j)
                 /\ OutputWidth(sequence[n].id) > 0
          /\ fields[j].enterprise \notin {0, IPFIX_ReverseInformationElement} =>
               /\ FieldSkipped(sequence, fields, j)
               /\ SteppedOver(sequence, fields, j)

\* ------------------------------------------------------------------------
\* One set of fields in two wire orders
\* ------------------------------------------------------------------------
\* the output offsets the sequence of a table assigns to each element
OutputOffsets(t) ==
  { << t.sequence[n].type, t.sequence[n].output_offset >> : n \in 1..Len(t.sequence) }

\* the two tables write the same output record
SameLayout(t1, t2) ==
  /\ t1.output_record_size = t2.output_record_size
  /\ t1.map.ex_id = t2.map.ex_id
  /\ OutputOffsets(t1) = OutputOffsets(t2)

\* every declared field whose element has a slot is read, at its declared
\* offset, by an op of its element
FollowsWire(t) ==
  \A j \in 1..Len(t.fields) :
    (\E n \in 1..Len(t.sequence) : t.sequence[n].type = t.fields[j].type
                                   /\ t.sequence[n].input_length > 0) =>
      \E n \in 1..Len(t.sequence) : /\ t.sequence[n].type = t.fields[j].type
                                    /\ ReadsField(t.sequence, n, t.fields, j)

\* C29: when a template has been accepted and the same (element, length)
\* fields arrive in another wire order under a second template id, the second
\* template is accepted too and its table has the output_record_size, the
\* extension tag list and the output_offset of every element of the first,
\* while its sequencer reads the fields in its own wire order.
C29_SameLayout ==
  [][ (Accepted /\ last.id = FirstTemplateId
         /\ last'.op = "template" /\ last'.id = SecondTable) =>
        /\ last'.accepted
        /\ SameLayout(TableOf(exporter, FirstTemplateId), TableOf(exporter', SecondTable))
        /\ FollowsWire(TableOf(exporter', SecondTable)) ]_vars

\* C39: a template record and a record with the same fields in another
\* order are both accepted or both rejected: when the fields of template
\* FirstTemplateId arrive again in another order as template SecondTable,
\* the second is installed exactly when the first was.
C39_OrderIndependent ==
  [][ (last.op = "template" /\ last.id = FirstTemplateId
         /\ last'.op = "template" /\ last'.id = SecondTable) =>
        /\ last'.accepted <=> last.accepted
        /\ Installed(exporter', SecondTable) <=> last.accepted ]_vars

\* ------------------------------------------------------------------------
\* The order of the records in the output buffer
\* ------------------------------------------------------------------------
\* the output buffer after these records were written one after the other:
\* each record is written at buff_ptr, and buff_ptr advances by the size the
\* record holds in its header
RECURSIVE Written(_, _)
Written(buffer, records) ==
  IF records = << >> THEN buffer
  ELSE Written(IF buffer # << >> /\ buffer[Len(buffer)].size = 0
               THEN [buffer EXCEPT ![Len(buffer)] = Head(records)]
               ELSE Append(buffer, Head(records)),
               Tail(records))

\* the source addresses of the data records of a Data Set, in wire order
SetSources(set) ==
  LET length == DeclaredOffset(StreamShape(set.id), Len(StreamShape(set.id)) + 1)
  IN  [ k \in 1..(Len(set.body) \div length) |->
          Unsigned(SubSeq(set.body, (k - 1) * length + 1, (k - 1) * length + 4)) ]

\* the source addresses of the data records of these sets whose template ex
\* has installed, in wire order
RECURSIVE WireSources(_, _)
WireSources(sets, ex) ==
  IF sets = << >> THEN << >>
  ELSE (IF Head(sets).id >= IPFIX_MIN_RECORD_FLOWSET_ID /\ Installed(ex, Head(sets).id)
        THEN SetSources(Head(sets)) ELSE << >>)
       \o WireSources(Tail(sets), ex)

\* the source addresses the records of the output buffer hold
BufferSources(buffer, ex) ==
  [ k \in 1..Len(buffer) |->
      OutputField(TableOf(ex, CHOOSE id \in InstalledIds(ex) : TRUE), buffer[k],
                  IPFIX_SourceIPv4Address) ]

\* C30: after a packet, the output buffer holds the records of the packet
\* before it and of this packet in the order in which their data records
\* arrived (packet, then set, then record), one output record for each data
\* record of an installed template.
C30_WireOrder ==
  [][ PacketStep =>
        LET before == IF last.op = "packet" THEN last.records ELSE << >>
            wire_before == IF last.op = "packet"
                           THEN WireSources(last.packet.flowsets, exporter) ELSE << >>
        IN  BufferSources(Written(<< >>, before \o last'.records), exporter')
              = wire_before \o WireSources(last'.packet.flowsets, exporter') ]_vars

\* C34: every record of the output buffer still has its header after the
\* sequencer ran: its size is the output_record_size of an installed table,
\* and no step of the sequence has written below the first output field
\* (BYTE_OFFSET_first), where type, size, flags and ext_map stand.
C34_RecordHeader ==
  last.op = "packet" =>
    \A k \in 1..Len(last.records) :
      /\ \E id \in InstalledIds(exporter) :
           last.records[k].size = TableOf(exporter, id).output_record_size
      /\ \A j \in DOMAIN last.records[k].out : j >= BYTE_OFFSET_first

\* C35: in every reachable state the exporter's current_table is NULL or
\* points to a table that is an entry of the exporter's table list.
C35_CurrentTableListed ==
  \/ exporter.current_table.kind = "NULL"
  \/ /\ exporter.current_table.kind = "listed"
     /\ \E k \in 1..Len(exporter.input_translation_table) :
          exporter.input_translation_table[k].id = exporter.current_table.id

\* the records a Data Set yields when the table is as calloc and the
\* compilation of its template have left it: duration and HasTimeMili zero
FreshRecords(ex, id, ExportTime, bytes) ==
  LET g == GetTranslationTable(ex, id)
      fresh == [Deref(g.ex, g.table) EXCEPT !.HasTimeMili = 0, !.duration = MsecValue(<< >>)]
  IN  Process_ipfix_data(StoreTable(g.ex, g.table, fresh), g.table, ExportTime, bytes,
                         Len(bytes) + 1, 0, default_sampling, overwrite_sampling).records

\* C36: the first and last time stamps of an emitted record are those its
\* bytes, the installed compilation of the template, the export time and the
\* exporter's SysUpTime give: what records before it, decoded by an earlier
\* compilation of the template, left in HasTimeMili and duration has no
\* effect.
C36_TimesFromRecord ==
  [][ (last'.op = "data" /\ Installed(exporter, last'.id))
        => \E fresh \in { FreshRecords(exporter, last'.id, 0, last'.bytes) } :
             /\ Len(fresh) = Len(last'.records)
             /\ \A k \in 1..Len(fresh) :
                  /\ last'.records[k].first = fresh[k].first
                  /\ last'.records[k].msec_first = fresh[k].msec_first
                  /\ last'.records[k].last = fresh[k].last
                  /\ last'.records[k].msec_last = fresh[k].msec_last ]_vars

\* C37: when a Data Set has yielded output records, the extension map of
\* its table (the map the records name in ext_map) is in the extension map
\* list of the flow source.
C37_MapRegistered ==
  (last.op = "data" /\ last.emitted > 0)
    => ExtensionMap(exporter.info.id, last.id) \in fs.extension_map_list

\* C38: after a packet the expected sequence number is the sequence number
\* of its header plus the number of data records of its Data Sets (Data Sets
\* of installed templates, of option templates and of unknown ids), and an
\* exporter whose headers count its data records never has sequence_failure
\* incremented.
C38_InSequence ==
  last.op = "packet" =>
    /\ stat.PacketSequence = last.packet.Sequence + RecordsSent(last.packet.flowsets)
    /\ stat.sequence_failure = 0

\* ------------------------------------------------------------------------
\* The sampler list and the sampler records flushed
\* ------------------------------------------------------------------------
\* the places of the sampler list that an option data record has added or
\* changed
TouchedSamplers ==
  { k \in 1..Len(exporter'.sampler) :
      k > Len(exporter.sampler) \/ exporter'.sampler[k] # exporter.sampler[k] }

\* C31: the exporter holds at most one sampler for each id, and an option
\* data record causes one FlushInfoSampler call for each sampler it adds or
\* changes, with the sampler record as stored afterwards (its new mode and
\* interval), and no call for a sampler it leaves as it is.
C31_SamplerFlush ==
  [][ last'.op = "option_data" =>
        /\ \A j, k \in 1..Len(exporter'.sampler) :
             exporter'.sampler[j].id = exporter'.sampler[k].id => j = k
        /\ Len(last'.flushed) = Cardinality(TouchedSamplers)
        /\ { last'.flushed[n] : n \in 1..Len(last'.flushed) }
             = { exporter'.sampler[k] : k \in TouchedSamplers } ]_vars

RECURSIVE Coalesced(_)
Coalesced(order) ==
  IF Len(order) <= 1 THEN [ k \in 1..Len(order) |-> [type |-> order[k].type,
                                                     length |-> order[k].length,
                                                     run |-> IsFixedSkip(order[k])] ]
  ELSE LET rest == Coalesced(Tail(order))
           e == Head(order)
       IN  IF IsFixedSkip(e) /\ rest[1].run
           THEN << [rest[1] EXCEPT !.length = @ + e.length] >> \o Tail(rest)
           ELSE << [type |-> e.type, length |-> e.length, run |-> IsFixedSkip(e)] >> \o rest

\* cache.input_order after the element loop over the fields of the last
\* template record
ParsedOrder == ParseElements(last.fields, extension_enabled, ClearedCache).input_order

\* C33: compact_input_order leaves one skip entry for each maximal run of
\* fixed-length skip entries, with the sum of the run as its length, and every
\* other entry (a dynamic skip too) as and where it was; no merged length is
\* 65535; it returns 0 exactly when no entry other than skips remains, and
\* the template is then not installed.
C33_Compaction ==
  last.op = "template" =>
    LET c == compact_input_order(ParsedOrder)
        e == Coalesced(ParsedOrder)
    IN  /\ Len(c.input_order) = Len(e)
        /\ \A k \in 1..Len(e) :
             /\ c.input_order[k].type = e[k].type
             /\ c.input_order[k].length = e[k].length
             /\ (e[k].run => c.input_order[k].length # DYN_FIELD_LENGTH)
        /\ c.ok = (\E k \in 1..Len(ParsedOrder) : ParsedOrder[k].type # SKIP_ELEMENT)
        /\ (~c.ok => ~last.accepted)

\* ------------------------------------------------------------------------
\* An exporter that sends Options Template Sets of every shape: any scope
\* field count, fields with and without an enterprise number, and a set that
\* ends behind the field specifiers as the exporter counts them
\* ------------------------------------------------------------------------
OptionFields ==
  { Field(IPFIX_ingressInterface, 4), Field(IPFIX_samplingInterval, 4),
    Field(IPFIX_samplingAlgorithm, 1), EnterpriseField(IPFIX_octetDeltaCount, 4, 9) }

\* option template records of one or two fields, scope_field_count 1 to 3
OptionShapes ==
  { [tableID |-> id, scope_field_count |-> n, fields |-> fields] :
      id \in { StdSamplingTable, SamplerTable }, n \in 1..3,
      fields \in { << f >> : f \in OptionFields }
                   \cup { << f, g >> : f \in OptionFields, g \in OptionFields } }

\* the lengths of the set: four bytes for each field, all the bytes of the
\* field specifiers, and these with two bytes of padding
OptionLengths(ot) ==
  { 10 + 4 * Len(ot.fields), 10 + FieldBytes(ot.fields), 10 + FieldBytes(ot.fields) + 2 }

\* Process_IPFIX, case IPFIX_OPTIONS_FLOWSET_ID, for a set of this length in
\* a buffer that holds the byte pad behind the field specifiers
OptionTemplateBytes(ot, flowset_length, pad) ==
  /\ template_path = "idle"
  /\ \E r \in { option_templates(exporter, ot, flowset_length, pad) } :
       /\ exporter' = r.ex
       /\ last' = [op |-> "option_template", id |-> ot.tableID, template |-> ot,
                   length |-> flowset_length, size_left |-> r.size_left]
  /\ UNCHANGED << extension_enabled, config, fs, template_path, wire, withdrawn, stat >>

NextOption ==
  \E ot \in OptionShapes : \E flowset_length \in OptionLengths(ot) : \E pad \in { 0, 255 } :
     OptionTemplateBytes(ot, flowset_length, pad)

SpecOption == Init /\ [][NextOption]_vars

\* C40: Process_ipfix_option_templates reads no field specifier behind the
\* end of the Options Template Set, and size_left never goes below zero,
\* whatever the field count, the scope field count (above the field count
\* too) and the enterprise bits of the fields are.
C40_OptionTemplateBounds ==
  last.op = "option_template" => last.size_left >= 0

====
